---------------------------- MODULE Spec2Model ----------------------------
(***************************************************************************)
(* Release-notes browser (msha/relese): the release data pipeline of       *)
(* src/data/utils.ts and src/data/validation.ts, and the filter/URL        *)
(* synchronisation of the two React islands in src/islands/FilterPanel.tsx *)
(***************************************************************************)
EXTENDS Integers, Sequences, FiniteSets, TLC

VARIABLES
    dataSource,   \* what `import('./releases.json')` yields
    heap,         \* the arrays of releases alive in memory, by reference
    ret,          \* the last repository call and what it returned
    url,          \* window.location: the query parameters and the fragment
    historyLen,   \* number of entries of window.history
    panel,        \* the FilterPanel island
    outline,      \* the StickyOutline island
    dom,          \* the release cards: whether rendered, which are hidden
    timers,       \* the pending setTimeout callbacks, in firing order
    dispatched,   \* details of the filtersChanged events dispatched by the
                  \* last callback that ran a filter pass, in order
    scrollVariant, \* which copy of useScrollTracking the page runs
    scrollState,  \* the scrollState of useScrollTracking
    frame,        \* updateTimeoutRef and the browser's queue of animation
                  \* frame callbacks
    layout,       \* window.innerWidth and the islands' responsive state
    view,         \* what StickyOutline rendered last
    hook          \* the IntersectionObserver of useScrollTracking: what it
                  \* observes, the pending setupObservers timeout, the page's
                  \* scroll position, and whether StickyOutline has unmounted

dataVars == <<dataSource, heap, ret>>
scrollVars == <<scrollVariant, scrollState, frame>>
renderVars == <<layout, view, hook>>
uiVars == <<url, historyLen, panel, outline, dom, timers, dispatched, scrollVars, renderVars>>
vars == <<dataSource, heap, ret, url, historyLen, panel, outline, dom, timers, dispatched,
          scrollVariant, scrollState, frame, layout, view, hook>>

-----------------------------------------------------------------------------
(* Bounds of the model *)

\* longest input array of fully varied release records
MaxReleases == 2
\* number of further records around one shape-varied record
MaxCompanions == 1
\* no filter is changed while this many timers are pending
MaxTimers == 3
\* most entries of one IntersectionObserver batch
MaxEntries == 2
\* most animation frame callbacks queued at a time
MaxFrames == 2
\* longest release list the outline is rendered for
MaxOutline == 2
\* longest input array of releases with repeated versions
MaxRepeats == 3
\* most entries of window.history
MaxHistory == 2

-----------------------------------------------------------------------------
(* Strings are sequences of one-character strings, so that split, Number   *)
(* and replace work on them as they do in the code.                        *)

Digits == <<"0", "1", "2", "3", "4", "5", "6", "7", "8", "9">>

IsDigit(c) == \E d \in 1..Len(Digits) : Digits[d] = c

DigitValue(c) == (CHOOSE d \in 1..Len(Digits) : Digits[d] = c) - 1

\* String.prototype.split('.'): the segments between the dots; "" gives [""]
RECURSIVE SplitFrom(_, _, _)
SplitFrom(s, i, cur) ==
    IF i > Len(s) THEN <<cur>>
    ELSE IF s[i] = "." THEN <<cur>> \o SplitFrom(s, i + 1, <<>>)
    ELSE SplitFrom(s, i + 1, Append(cur, s[i]))

SplitDots(s) == SplitFrom(s, 1, <<>>)

RECURSIVE DecimalValue(_)
DecimalValue(seg) ==
    IF seg = <<>> THEN 0
    ELSE 10 * DecimalValue(SubSeq(seg, 1, Len(seg) - 1)) + DigitValue(seg[Len(seg)])

AllDigits(seg) == \A i \in 1..Len(seg) : IsDigit(seg[i])

\* Number(segment): "" is 0, a decimal literal (optionally signed) is its
\* value, anything else is NaN
Number(seg) ==
    IF seg = <<>> THEN [nan |-> FALSE, n |-> 0]
    ELSE IF AllDigits(seg) THEN [nan |-> FALSE, n |-> DecimalValue(seg)]
    ELSE IF seg[1] = "-" /\ Len(seg) > 1 /\ AllDigits(Tail(seg))
         THEN [nan |-> FALSE, n |-> 0 - DecimalValue(Tail(seg))]
    ELSE [nan |-> TRUE, n |-> 0]

\* parts[i] || 0: a missing segment (undefined), NaN and 0 all give 0
PartOrZero(parts, i) ==
    IF i > Len(parts) THEN 0
    ELSE IF Number(parts[i]).nan THEN 0
    ELSE Number(parts[i]).n

Max(a, b) == IF a > b THEN a ELSE b

RECURSIVE CompareLoop(_, _, _, _)
CompareLoop(aParts, bParts, i, maxLength) ==
    IF i > maxLength THEN 0
    ELSE IF PartOrZero(aParts, i) > PartOrZero(bParts, i) THEN 1
    ELSE IF PartOrZero(aParts, i) < PartOrZero(bParts, i) THEN -1
    ELSE CompareLoop(aParts, bParts, i + 1, maxLength)

\* a plausible slip: segments compared as text, character by character
RECURSIVE LexLoop(_, _, _)
LexLoop(a, b, i) ==
    IF i > Len(a) /\ i > Len(b) THEN 0
    ELSE IF i > Len(a) THEN -1
    ELSE IF i > Len(b) THEN 1
    ELSE IF a[i] = b[i] THEN LexLoop(a, b, i + 1)
    ELSE IF a[i] = "." THEN -1
    ELSE IF b[i] = "." THEN 1
    ELSE IF IsDigit(a[i]) /\ IsDigit(b[i])
         THEN (IF DigitValue(a[i]) > DigitValue(b[i]) THEN 1 ELSE -1)
    ELSE IF IsDigit(a[i]) THEN -1 ELSE 1

CompareVersionsLexical(a, b) == LexLoop(a, b, 1)

CompareVersions(a, b) ==
    CompareLoop(SplitDots(a), SplitDots(b), 1,
                Max(Len(SplitDots(a)), Len(SplitDots(b))))


-----------------------------------------------------------------------------
(* JSON values of the data file.  Every value carries its kind in k, so    *)
(* that typeof / Array.isArray / zod's type checks can be modelled.        *)

\* a string of an enumeration is a sequence of one token
RELEASE_TYPES == <<(<<"initial">>), (<<"major">>), (<<"minor">>), (<<"patch">>), (<<"hotfix">>)>>
DATE_RANGES == <<(<<"thisYear">>), (<<"lastYear">>), (<<"older">>)>>

ReleaseTypes == {RELEASE_TYPES[i] : i \in 1..Len(RELEASE_TYPES)}
DateRanges == {DATE_RANGES[i] : i \in 1..Len(DATE_RANGES)}

\* a field the record does not have (undefined)
Undefined == [k |-> "undefined", v |-> <<>>]
\* a JSON string
Str(chars) == [k |-> "string", v |-> chars]
\* a JSON array whose elements are all strings
Strings(items) == [k |-> "strings", v |-> items]
\* a JSON array with an element that is not a string
MixedArray == [k |-> "mixed", v |-> <<>>]
\* a date field: an ISO-8601 UTC date-time of year y, at part p of the year
\* (0: the first hours of 1 January, 1: mid-year, 2: the last hours of
\* 31 December), or a string that is no date-time
IsoDate(y, p) == [k |-> "iso", y |-> y, p |-> p]
BadDate == [k |-> "string", y |-> 0, p |-> 0]
NoDate == [k |-> "undefined", y |-> 0, p |-> 0]
\* a content field: an object (its entries in insertion order), or not
Obj(entries) == [k |-> "object", e |-> entries]
NoContent == [k |-> "undefined", e |-> <<>>]
NullContent == [k |-> "null", e |-> <<>>]
ArrayContent == [k |-> "array", e |-> <<>>]
StringContent == [k |-> "string", e |-> <<>>]
Entry(key, val) == [key |-> key, val |-> val]

IsArray(f) == f.k \in {"strings", "mixed"}
IsStringArray(f) == f.k = "strings"

Keys(entries) == {entries[i].key : i \in 1..Len(entries)}
Lookup(entries, key) ==
    entries[CHOOSE i \in 1..Len(entries) : entries[i].key = key].val

-----------------------------------------------------------------------------
(* validation.ts: the zod schemas *)

\* z.string().min(1) without the length check
VersionSchemaAnyString(f) == f.k = "string"

\* version: z.string().min(1)
VersionSchema(f) == f.k = "string" /\ Len(f.v) >= 1

\* date: z.string().datetime()
DateSchema(f) == f.k = "iso"

\* type: ReleaseTypeSchema
ReleaseTypeSchema(f) == f.k = "string" /\ f.v \in ReleaseTypes

\* content: z.record(z.string(), z.array(z.string()))
ContentSchema(c) ==
    /\ c.k = "object"
    /\ \A i \in 1..Len(c.e) : IsStringArray(c.e[i].val)

\* ReleaseSchema.safeParse(item).success
ReleaseSchema(item) ==
    /\ VersionSchema(item.version)
    /\ DateSchema(item.date)
    /\ ReleaseTypeSchema(item.type)
    /\ ContentSchema(item.content)

\* ReleaseSchema.safeParse(item).data: the four schema keys, others stripped
ParsedRelease(item) ==
    [version |-> item.version.v,
     date |-> [y |-> item.date.y, p |-> item.date.p],
     type |-> item.type.v,
     content |-> [i \in 1..Len(item.content.e) |->
                     Entry(item.content.e[i].key, item.content.e[i].val.v)]]

\* ReleasesArraySchema.safeParse(rawData).success
ReleasesArraySchema(rawData) ==
    /\ rawData.k = "array"
    /\ \A i \in 1..Len(rawData.items) : ReleaseSchema(rawData.items[i])

ParsedArray(rawData) ==
    [i \in 1..Len(rawData.items) |-> ParsedRelease(rawData.items[i])]

-----------------------------------------------------------------------------
(* utils.ts: loadReleases, the legacy transform *)

\* a plausible slip: one of the four legacy fields is forgotten
LegacyKeysWithoutBugfixes == <<"highlights", "features", "improvements">>

LegacyKeys == <<"highlights", "features", "improvements", "bugfixes">>

RECURSIVE LegacyEntries(_, _)
LegacyEntries(item, i) ==
    IF i > Len(LegacyKeys) THEN <<>>
    ELSE (IF IsArray(item[LegacyKeys[i]])
          THEN <<Entry(LegacyKeys[i], item[LegacyKeys[i]])>>
          ELSE <<>>) \o LegacyEntries(item, i + 1)

\* the loop over Object.entries(item): the record's other own field, notes
AdditionalEntries(item) ==
    IF IsArray(item.notes) /\ IsStringArray(item.notes)
    THEN <<Entry("notes", item.notes)>>
    ELSE <<>>

ReconstructedContent(item) ==
    Obj(LegacyEntries(item, 1) \o AdditionalEntries(item))

\* a plausible slip: the reconstructed content always wins
TransformAlwaysReconstruct(item) ==
    [version |-> item.version, date |-> item.date, type |-> item.type,
     content |-> ReconstructedContent(item)]

\* the body of legacyArray.map(...); typeof is 'object' for objects, arrays
\* and null
Transform(item) ==
    [version |-> item.version, date |-> item.date, type |-> item.type,
     content |-> IF item.content.k \in {"object", "array"}
                 THEN item.content
                 ELSE ReconstructedContent(item)]

Transformed(rawData) ==
    [k |-> "array",
     items |-> IF rawData.k = "array"
               THEN [i \in 1..Len(rawData.items) |-> Transform(rawData.items[i])]
               ELSE <<>>]

-----------------------------------------------------------------------------
(* utils.ts: sortReleases *)

\* new Date(date).getTime(), in thirds of a year
GetTime(date) == date.y * 3 + date.p

\* a plausible slip: the dates compared the other way round, oldest first
SortComparatorOldestFirst(a, b) ==
    IF GetTime(a.date) - GetTime(b.date) # 0
    THEN GetTime(a.date) - GetTime(b.date)
    ELSE CompareVersions(b.version, a.version)

\* a plausible slip: the version tie-break in ascending order
SortComparatorAscendingVersion(a, b) ==
    IF GetTime(b.date) - GetTime(a.date) # 0
    THEN GetTime(b.date) - GetTime(a.date)
    ELSE CompareVersions(a.version, b.version)

\* the comparator handed to Array.prototype.sort
SortComparator(a, b) ==
    IF GetTime(b.date) - GetTime(a.date) # 0
    THEN GetTime(b.date) - GetTime(a.date)
    ELSE CompareVersions(b.version, a.version)

\* a plausible slip: a sort that is not stable, x goes before the elements
\* it ties with
RECURSIVE InsertSortedBeforeTies(_, _)
InsertSortedBeforeTies(sorted, x) ==
    IF sorted = <<>> THEN <<x>>
    ELSE IF SortComparator(Head(sorted), x) >= 0 THEN <<x>> \o sorted
    ELSE <<Head(sorted)>> \o InsertSortedBeforeTies(Tail(sorted), x)

\* Array.prototype.sort is stable: x goes behind every element that does
\* not sort after it
RECURSIVE InsertSorted(_, _)
InsertSorted(sorted, x) ==
    IF sorted = <<>> THEN <<x>>
    ELSE IF SortComparator(Head(sorted), x) > 0 THEN <<x>> \o sorted
    ELSE <<Head(sorted)>> \o InsertSorted(Tail(sorted), x)

RECURSIVE SortedSeq(_)
SortedSeq(releases) ==
    IF releases = <<>> THEN <<>>
    ELSE InsertSorted(SortedSeq(SubSeq(releases, 1, Len(releases) - 1)),
                      releases[Len(releases)])

\* releases.sort(...) sorts the array in place and returns the same array
SortReleases(h, ref) == [heap |-> [h EXCEPT ![ref] = SortedSeq(h[ref])], ref |-> ref]

-----------------------------------------------------------------------------
(* utils.ts: loadReleases *)

Unreadable == [k |-> "unreadable", items |-> <<>>]
NotAnArray == [k |-> "object", items |-> <<>>]
JsonArray(items) == [k |-> "array", items |-> items]

\* a plausible slip: no fallback to the legacy transform
TryLoadDirectOnly(src) ==
    IF src.k = "unreadable"
    THEN [thrown |-> TRUE, error |-> "Cannot find module", heap |-> <<>>, ref |-> 0]
    ELSE IF ReleasesArraySchema(src)
    THEN [thrown |-> FALSE, error |-> ""] @@ SortReleases(<<ParsedArray(src)>>, 1)
    ELSE [thrown |-> TRUE, error |-> "Release data validation failed",
          heap |-> <<>>, ref |-> 0]

\* the try block: a sorted array allocated on the heap, or what is thrown
TryLoad(src) ==
    IF src.k = "unreadable"
    THEN [thrown |-> TRUE, error |-> "Cannot find module", heap |-> <<>>, ref |-> 0]
    ELSE IF ReleasesArraySchema(src)
    THEN [thrown |-> FALSE, error |-> ""] @@ SortReleases(<<ParsedArray(src)>>, 1)
    ELSE IF ReleasesArraySchema(Transformed(src))
    THEN [thrown |-> FALSE, error |-> ""]
         @@ SortReleases(<<ParsedArray(Transformed(src))>>, 1)
    ELSE [thrown |-> TRUE, error |-> "Release data validation failed",
          heap |-> <<>>, ref |-> 0]

\* a plausible slip: the catch block rethrows what it caught
LoadReleasesRethrow(src) ==
    LET t == TryLoad(src)
    IN  [ok |-> ~t.thrown, error |-> t.error, heap |-> t.heap, ref |-> t.ref]

\* loadReleases(): the promise resolves with the array or rejects with the
\* error of the catch block
LoadReleases(src) ==
    LET t == TryLoad(src)
    IN  [ok |-> ~t.thrown,
         error |-> IF t.thrown THEN "Failed to load release data" ELSE "",
         heap |-> t.heap, ref |-> t.ref]

-----------------------------------------------------------------------------
(* utils.ts: filterReleases, isInDateRange *)

TimeZones == {"west", "utc", "east"}

\* Date.prototype.getFullYear(): the calendar year in the local time zone
GetFullYear(date, tz) ==
    IF tz = "west" /\ date.p = 0 THEN date.y - 1
    ELSE IF tz = "east" /\ date.p = 2 THEN date.y + 1
    ELSE date.y

\* a plausible slip: older also takes the year before the current one
IsInDateRangeOlderInclusive(date, range, clock) ==
    IF range = <<"thisYear">> THEN GetFullYear(date, clock.tz) = GetFullYear(clock.now, clock.tz)
    ELSE IF range = <<"lastYear">> THEN GetFullYear(date, clock.tz) = GetFullYear(clock.now, clock.tz) - 1
    ELSE IF range = <<"older">> THEN GetFullYear(date, clock.tz) <= GetFullYear(clock.now, clock.tz) - 1
    ELSE TRUE

IsInDateRange(date, range, clock) ==
    LET currentYear == GetFullYear(clock.now, clock.tz)
        releaseYear == GetFullYear(date, clock.tz)
    IN  IF range = <<"thisYear">> THEN releaseYear = currentYear
        ELSE IF range = <<"lastYear">> THEN releaseYear = currentYear - 1
        ELSE IF range = <<"older">> THEN releaseYear < currentYear - 1
        ELSE TRUE

\* JavaScript truthiness of an optional string: undefined and "" are falsy
Truthy(f) == f.k = "string" /\ f.v # <<>>

\* a plausible slip: the type constraint is not applied
KeepsIgnoringType(release, filters, clock) ==
    /\ ~(Truthy(filters.version) /\ release.version # filters.version.v)
    /\ ~(Truthy(filters.dateRange) /\ ~IsInDateRange(release.date, filters.dateRange.v, clock))

\* the callback of releases.filter(...)
Keeps(release, filters, clock) ==
    /\ ~(Truthy(filters.version) /\ release.version # filters.version.v)
    /\ ~(Truthy(filters.dateRange) /\ ~IsInDateRange(release.date, filters.dateRange.v, clock))
    /\ ~(Truthy(filters.type) /\ release.type # filters.type.v)

RECURSIVE SelectKept(_, _, _)
SelectKept(seq, filters, clock) ==
    IF seq = <<>> THEN <<>>
    ELSE (IF Keeps(Head(seq), filters, clock) THEN <<Head(seq)>> ELSE <<>>)
         \o SelectKept(Tail(seq), filters, clock)

\* a plausible slip: the input array is filtered in place and returned
FilterReleasesInPlace(h, ref, filters, clock) ==
    [heap |-> [h EXCEPT ![ref] = SelectKept(h[ref], filters, clock)], ref |-> ref]

\* Array.prototype.filter allocates the array it returns
FilterReleases(h, ref, filters, clock) ==
    [heap |-> Append(h, SelectKept(h[ref], filters, clock)), ref |-> Len(h) + 1]

-----------------------------------------------------------------------------
(* utils.ts: getUniqueVersions, generateReleaseId, generateSectionId *)

\* releases.map((r) => r.version)
MapVersion(releases) == [i \in 1..Len(releases) |-> releases[i].version]

\* a plausible slip: a value met again moves to the place of its last
\* occurrence
RECURSIVE NewSetLastOccurrence(_)
NewSetLastOccurrence(items) ==
    IF items = <<>> THEN <<>>
    ELSE IF \E i \in 1..Len(Tail(items)) : Tail(items)[i] = Head(items)
         THEN NewSetLastOccurrence(Tail(items))
    ELSE <<Head(items)>> \o NewSetLastOccurrence(Tail(items))

\* [...new Set(items)]: a Set keeps its values in the order of their first
\* insertion, and adding a value it already holds changes nothing
RECURSIVE NewSet(_)
NewSet(items) ==
    IF items = <<>> THEN <<>>
    ELSE LET front == NewSet(SubSeq(items, 1, Len(items) - 1))
             x == items[Len(items)]
         IN  IF \E i \in 1..Len(front) : front[i] = x THEN front
             ELSE Append(front, x)

GetUniqueVersions(releases) == NewSet(MapVersion(releases))

\* a plausible slip: replace('.', '-'), which replaces the first dot only
ReplaceFirstDot(version) ==
    [i \in 1..Len(version) |->
        IF version[i] = "." /\ \A m \in 1..(i - 1) : version[m] # "."
        THEN "-" ELSE version[i]]

\* version.replace(/\./g, '-')
ReplaceDots(version) ==
    [i \in 1..Len(version) |-> IF version[i] = "." THEN "-" ELSE version[i]]

\* `release-${...}`: the literal is one token, a section key another
GenerateReleaseId(version) == <<"release-">> \o ReplaceDots(version)

GenerateSectionId(version, section) ==
    <<"release-">> \o ReplaceDots(version) \o <<"-", section>>

-----------------------------------------------------------------------------
(* The inputs: the data files the repository is run on *)

V_1_9_0 == <<"1", ".", "9", ".", "0">>
V_1_10_0 == <<"1", ".", "1", "0", ".", "0">>
V_1_0 == <<"1", ".", "0">>
V_1_0_0 == <<"1", ".", "0", ".", "0">>
V_1_10 == <<"1", ".", "1", "0">>
V_1_9 == <<"1", ".", "9">>
V_2 == <<"2">>
V_1_b == <<"1", ".", "b">>
V_1d0 == <<"1", "-", "0">>

Minor == <<"minor">>
Hotfix == <<"hotfix">>

\* a record of the data file: its fields, undefined where it has none
RawRecord(version, date, type, content, highlights, features, improvements, bugfixes, notes) ==
    [version |-> version, date |-> date, type |-> type, content |-> content,
     highlights |-> highlights, features |-> features,
     improvements |-> improvements, bugfixes |-> bugfixes, notes |-> notes]

\* a record of the current shape: nested content, no other field
Current(version, date, type, content) ==
    RawRecord(Str(version), date, Str(type), content,
              Undefined, Undefined, Undefined, Undefined, Undefined)

FeaturesX == Obj(<<Entry("features", Strings(<<"x">>))>>)

\* records that differ in version and date: the ordering cases
OrderRecords ==
    {Current(v, IsoDate(2024, 1), Minor, FeaturesX) :
        v \in {V_1_9_0, V_1_10_0, V_1_0, V_1_0_0, V_1_10, V_1_9, V_2, V_1_b}}
    \cup {Current(v, IsoDate(2025, 1), Minor, FeaturesX) :
        v \in {V_1_9_0, V_1_10_0, V_1_0}}

\* records that differ in date, type and version: the filtering cases
FilterRecords ==
    {Current(V_1_0, IsoDate(d[1], d[2]), Minor, Obj(<<>>)) :
        d \in {<<2022, 1>>, <<2023, 2>>, <<2024, 1>>, <<2024, 2>>,
               <<2025, 0>>, <<2025, 1>>, <<2026, 0>>}}
    \cup {Current(V_1_0, IsoDate(y, 1), Hotfix, Obj(<<>>)) : y \in {2024, 2025}}
    \cup {Current(V_2, IsoDate(2025, 1), t, Obj(<<>>)) : t \in {Minor, Hotfix}}

\* records that differ in shape: the validation cases
LegacyRecords ==
    {RawRecord(Str(V_1_0), IsoDate(2024, 1), Str(<<"initial">>), NoContent, h, f, i, b, n) :
        h \in {Undefined, Strings(<<"a">>)}, f \in {Undefined, Strings(<<"b">>)},
        i \in {Undefined, Strings(<<>>)}, b \in {Undefined, Strings(<<"c">>)},
        n \in {Undefined, Strings(<<"n">>)}}

ContentRecords ==
    {RawRecord(Str(V_1_0), IsoDate(2024, 1), Str(Minor), c, h, Undefined, Undefined, Undefined, n) :
        c \in {Obj(<<>>), FeaturesX, Obj(<<Entry("features", MixedArray)>>),
               Obj(<<Entry("features", Strings(<<>>))>>), NullContent, ArrayContent,
               StringContent},
        h \in {Undefined, Strings(<<"a">>)},
        n \in {Undefined, Strings(<<"n">>)}}

MalformedRecords ==
    {RawRecord(Str(V_1_0), IsoDate(2024, 1), Str(Minor), NoContent, h, f, Undefined, Undefined, n) :
        h \in {MixedArray, Str(<<"a">>)}, f \in {Undefined, Strings(<<"b">>)},
        n \in {Undefined, MixedArray}}
    \cup
    {RawRecord(v, d, t, c, h, Undefined, Undefined, Undefined, Undefined) :
        v \in {Str(<<>>), Undefined}, d \in {IsoDate(2024, 1)}, t \in {Str(Minor)},
        c \in {NoContent, Obj(<<>>), FeaturesX}, h \in {Undefined, Strings(<<"a">>)}}
    \cup
    {RawRecord(Str(V_1_0), d, t, c, h, Undefined, Undefined, Undefined, Undefined) :
        d \in {BadDate, NoDate}, t \in {Str(Minor)},
        c \in {NoContent, FeaturesX}, h \in {Undefined, Strings(<<"a">>)}}
    \cup
    {RawRecord(Str(V_1_0), IsoDate(2024, 1), t, c, h, Undefined, Undefined, Undefined, Undefined) :
        t \in {Str(<<"bogus">>), Undefined},
        c \in {NoContent, FeaturesX}, h \in {Undefined, Strings(<<"a">>)}}

ShapeRecords == LegacyRecords \cup ContentRecords \cup MalformedRecords

\* the records placed around a shape record: one valid in the current
\* shape, one valid in the legacy shape, one valid in neither
CompanionRecords ==
    {Current(V_2, IsoDate(2025, 1), Hotfix, FeaturesX),
     RawRecord(Str(V_1_9), IsoDate(2024, 1), Str(Minor), NoContent,
               Strings(<<"a">>), Undefined, Undefined, Undefined, Undefined),
     RawRecord(Str(V_1_9), IsoDate(2024, 1), Str(<<"bogus">>), FeaturesX,
               Undefined, Undefined, Undefined, Undefined, Undefined)}

\* records of which two have the same version, and one of another version
\* sorts between them
RepeatRecords ==
    {Current(V_1_0, IsoDate(2026, 0), Minor, Obj(<<>>)),
     Current(V_2, IsoDate(2025, 1), Minor, Obj(<<>>)),
     Current(V_1_0, IsoDate(2024, 1), Minor, Obj(<<>>))}

SeqsUpTo(S, n) == UNION {[1..k -> S] : k \in 0..n}

InsertAt(seq, pos, x) ==
    [i \in 1..(Len(seq) + 1) |->
        IF i < pos THEN seq[i] ELSE IF i = pos THEN x ELSE seq[i - 1]]

DataSources ==
    {Unreadable, NotAnArray}
    \cup {JsonArray(items) : items \in SeqsUpTo(OrderRecords, MaxReleases)}
    \cup {JsonArray(items) : items \in SeqsUpTo(FilterRecords, MaxReleases)}
    \cup {JsonArray(items) : items \in SeqsUpTo(RepeatRecords, MaxRepeats)}
    \cup UNION {{JsonArray(InsertAt(c, pos, r)) :
                    pos \in 1..(Len(c) + 1), r \in ShapeRecords} :
                 c \in SeqsUpTo(CompanionRecords, MaxCompanions)}

\* the arguments filterReleases is called with
OptionalVersions == {Undefined, Str(<<>>), Str(V_1_0)}
OptionalDateRanges == {Undefined} \cup {Str(r) : r \in DateRanges}
OptionalTypes == {Undefined, Str(Hotfix)}

FilterStates ==
    [version : OptionalVersions, dateRange : OptionalDateRanges, type : OptionalTypes]

\* what new Date() and the host's time zone can be when a filter runs
Clocks ==
    [now : {[y |-> 2025, p |-> 1]}, tz : TimeZones]
    \cup {[now |-> [y |-> 2025, p |-> 2], tz |-> "east"],
          [now |-> [y |-> 2025, p |-> 0], tz |-> "west"]}

-----------------------------------------------------------------------------
(* The repository as a state machine *)

NoCall == [op |-> "none"]

InitData ==
    /\ dataSource \in DataSources
    /\ heap = <<>>
    /\ ret = NoCall

\* await loadReleases(), once per page load
Load ==
    /\ ret.op = "none"
    /\ LET r == LoadReleases(dataSource)
       IN  /\ heap' = r.heap
           /\ ret' = [op |-> "load", ok |-> r.ok, error |-> r.error, out |-> r.ref]
    /\ UNCHANGED <<dataSource, uiVars>>

\* the page is loaded again: nothing of the last page load survives
Reload ==
    /\ ret.op # "none"
    /\ heap' = <<>>
    /\ ret' = NoCall
    /\ UNCHANGED <<dataSource, uiVars>>

\* filterReleases(releases, filters) on the list loadReleases() returned
Filter ==
    /\ ret.op = "load" /\ ret.ok
    /\ \E filters \in FilterStates, clock \in Clocks :
          LET r == FilterReleases(heap, ret.out, filters, clock)
          IN  /\ heap' = r.heap
              /\ ret' = [op |-> "filter", in |-> ret.out, out |-> r.ref,
                         filters |-> filters, clock |-> clock]
    /\ UNCHANGED <<dataSource, uiVars>>

\* compareVersions(a, b), as sortReleases calls it on two loaded releases
Compare ==
    /\ ret.op = "load" /\ ret.ok
    /\ \E i \in 1..Len(heap[ret.out]), j \in 1..Len(heap[ret.out]) :
          LET a == heap[ret.out][i].version
              b == heap[ret.out][j].version
          IN  ret' = [op |-> "compareVersions", a |-> a, b |-> b,
                      out |-> CompareVersions(a, b)]
    /\ UNCHANGED heap
    /\ UNCHANGED <<dataSource, uiVars>>

\* getUniqueVersions(releases) on the list loadReleases() returned
UniqueVersions ==
    /\ ret.op = "load" /\ ret.ok
    /\ ret' = [op |-> "getUniqueVersions", in |-> ret.out,
               out |-> GetUniqueVersions(heap[ret.out])]
    /\ UNCHANGED heap
    /\ UNCHANGED <<dataSource, uiVars>>

-----------------------------------------------------------------------------
(* FilterPanel.tsx: the URL and the two islands' filter state *)

NoFilters == [version |-> Undefined, dateRange |-> Undefined, type |-> Undefined]

\* props.availableVersions
AvailableVersions == <<V_2, V_1_0>>

Includes(list, x) == \E i \in 1..Len(list) : list[i] = x

\* a plausible slip: the fragment and the history are left as they are,
\* but the filter parameters already in the URL are not deleted first
UpdateURLKeepingOld(u, filters) ==
    [version |-> IF Truthy(filters.version) THEN filters.version ELSE u.version,
     type |-> IF Truthy(filters.type) THEN filters.type ELSE u.type,
     date |-> IF Truthy(filters.dateRange) THEN filters.dateRange ELSE u.date,
     lang |-> u.lang,
     hash |-> <<>>]

\* a plausible slip: the query string is built from the filters alone
UpdateURLDroppingOthers(u, filters) ==
    [version |-> IF Truthy(filters.version) THEN filters.version ELSE Undefined,
     type |-> IF Truthy(filters.type) THEN filters.type ELSE Undefined,
     date |-> IF Truthy(filters.dateRange) THEN filters.dateRange ELSE Undefined,
     lang |-> Undefined,
     hash |-> <<>>]

\* updateURL(): the three filter parameters are deleted and set again from
\* the filters, every other parameter is kept; the new URL is the path and
\* the query, so it has no fragment; replaceState adds no history entry
UpdateURL(u, filters) ==
    [version |-> IF Truthy(filters.version) THEN filters.version ELSE Undefined,
     type |-> IF Truthy(filters.type) THEN filters.type ELSE Undefined,
     date |-> IF Truthy(filters.dateRange) THEN filters.dateRange ELSE Undefined,
     lang |-> u.lang,
     hash |-> <<>>]

\* a plausible slip: the date range is looked up under the name of the
\* FilterState field, dateRange, a parameter the URL never carries
ReadURLDateRangeParam(u, availableVersions) ==
    [version |-> IF Truthy(u.version) /\ Includes(availableVersions, u.version.v)
                 THEN u.version ELSE Undefined,
     type |-> IF Truthy(u.type) /\ Includes(RELEASE_TYPES, u.type.v)
              THEN u.type ELSE Undefined,
     dateRange |-> Undefined]

\* the urlFilters object of the "read URL params on mount" effect
ReadURL(u, availableVersions) ==
    [version |-> IF Truthy(u.version) /\ Includes(availableVersions, u.version.v)
                 THEN u.version ELSE Undefined,
     type |-> IF Truthy(u.type) /\ Includes(RELEASE_TYPES, u.type.v)
              THEN u.type ELSE Undefined,
     dateRange |-> IF Truthy(u.date) /\ Includes(DATE_RANGES, u.date.v)
                   THEN u.date ELSE Undefined]

\* Object.keys(urlFilters).length > 0
HasKeys(urlFilters) ==
    \E key \in {"version", "type", "dateRange"} : urlFilters[key].k # "undefined"

\* { ...prev, ...urlFilters }
Merge(prev, urlFilters) ==
    [key \in {"version", "type", "dateRange"} |->
        IF urlFilters[key].k # "undefined" THEN urlFilters[key] ELSE prev[key]]

\* setFilters(prev => ({ ...prev, [key]: value || undefined }))
HandleFilterChange(prev, key, value) ==
    [prev EXCEPT ![key] = IF Truthy(value) THEN value ELSE Undefined]

\* the rendered release cards and their data-release-* attributes
DomCards ==
    <<[version |-> V_2, type |-> Hotfix, date |-> [y |-> 2025, p |-> 0]],
      [version |-> V_1_0, type |-> Minor, date |-> [y |-> 2024, p |-> 0]],
      [version |-> V_1_9, type |-> Minor, date |-> [y |-> 2023, p |-> 1]]>>

\* a plausible slip: under "older" the year before the current one is shown
ShouldShowOlderOffByOne(card, filters, clock) ==
    LET currentYear == GetFullYear(clock.now, clock.tz)
        releaseYear == GetFullYear(card.date, clock.tz)
    IN  /\ ~(Truthy(filters.version) /\ card.version # filters.version.v)
        /\ ~(Truthy(filters.type) /\ card.type # filters.type.v)
        /\ ~(/\ Truthy(filters.dateRange)
             /\ \/ filters.dateRange.v = <<"thisYear">> /\ releaseYear # currentYear
                \/ filters.dateRange.v = <<"lastYear">> /\ releaseYear # currentYear - 1
                \/ filters.dateRange.v = <<"older">> /\ releaseYear > currentYear - 1)

\* shouldShow of checkAndApplyFilters
ShouldShow(card, filters, clock) ==
    LET currentYear == GetFullYear(clock.now, clock.tz)
        releaseYear == GetFullYear(card.date, clock.tz)
    IN  /\ ~(Truthy(filters.version) /\ card.version # filters.version.v)
        /\ ~(Truthy(filters.type) /\ card.type # filters.type.v)
        /\ ~(/\ Truthy(filters.dateRange)
             /\ \/ filters.dateRange.v = <<"thisYear">> /\ releaseYear # currentYear
                \/ filters.dateRange.v = <<"lastYear">> /\ releaseYear # currentYear - 1
                \/ filters.dateRange.v = <<"older">> /\ releaseYear >= currentYear - 1)

\* a plausible slip: hasResults is computed before the cards are counted
FiltersChangedStaleFlag(visibleCount) ==
    [k |-> "filtersChanged", hasResults |-> FALSE, visibleCount |-> visibleCount]

\* the detail of the filtersChanged event
FiltersChanged(visibleCount) ==
    [k |-> "filtersChanged", hasResults |-> visibleCount > 0,
     visibleCount |-> visibleCount]

\* setTimeout(fn, 100): the callback with the filters its closure captured
SetTimeout(tm, fn, filters) == Append(tm, [fn |-> fn, filters |-> filters])

\* checkAndApplyFilters(): retried 100 ms later while no card is rendered;
\* otherwise every card is shown or hidden and filtersChanged is dispatched
CheckAndApplyFilters(d, tm, ev, filters, clock) ==
    IF ~d.cards
    THEN [dom |-> d, dispatched |-> ev,
          timers |-> SetTimeout(tm, "checkAndApplyFilters", filters)]
    ELSE LET hidden == {i \in 1..Len(DomCards) : ~ShouldShow(DomCards[i], filters, clock)}
         IN  [dom |-> [d EXCEPT !.hidden = hidden,
                                !.pass = [fn |-> "checkAndApplyFilters",
                                          filters |-> filters, clock |-> clock]],
              timers |-> tm,
              dispatched |-> Append(ev, FiltersChanged(Len(DomCards) - Cardinality(hidden)))]

\* showAllCards(): retried 100 ms later while no card is rendered
ShowAllCards(d, tm, ev) ==
    IF ~d.cards
    THEN [dom |-> d, dispatched |-> ev,
          timers |-> SetTimeout(tm, "showAllCards", NoFilters)]
    ELSE [dom |-> [d EXCEPT !.hidden = {}, !.pass = [fn |-> "showAllCards"]],
          timers |-> tm,
          dispatched |-> Append(ev, FiltersChanged(Len(DomCards)))]

\* what new Date() and the host's time zone can be when a filter pass runs
UIClocks ==
    {[now |-> [y |-> 2025, p |-> 1], tz |-> "utc"],
     [now |-> [y |-> 2025, p |-> 1], tz |-> "west"]}

\* the values the select boxes and the chips hand to handleFilterChange:
\* an option's value, or "" or undefined to remove the filter
ChangeValues ==
    [version |-> {Str(V_1_0), Undefined},
     type |-> {Str(Minor), Str(<<>>)},
     dateRange |-> {Str(<<"thisYear">>), Str(<<"older">>), Str(<<>>)}]

\* props.initialFilters of the FilterPanel: a FilterState as the type
\* declares it, whose version is any string: none, a type, and a version
\* that availableVersions lacks
InitialFilters ==
    {NoFilters, [NoFilters EXCEPT !.type = Str(Hotfix)],
     [NoFilters EXCEPT !.version = Str(V_1_9)]}

\* a plausible slip: clearing keeps the selected version
ClearAllFiltersKeepingVersion(prev) == [NoFilters EXCEPT !.version = prev.version]

\* setFilters({})
ClearAllFilters(prev) == NoFilters

\* history.replaceState(): the current entry is replaced, none is added
ReplaceState(entries) == entries

\* onFiltersChange has not been called
NotNotified == [called |-> FALSE]

\* a plausible slip: the observer is told before the URL is rewritten
SyncEffectNotifyFirst(u, entries, filters) ==
    [url |-> UpdateURL(u, filters),
     historyLen |-> ReplaceState(entries),
     notified |-> [called |-> TRUE, filters |-> filters, url |-> u]]

\* the body of the URL sync effect: updateURL(), then onFiltersChange(filters);
\* notified records the argument of that call and the URL at the time of it
SyncEffect(u, entries, filters) ==
    LET rewritten == UpdateURL(u, filters)
    IN  [url |-> rewritten,
         historyLen |-> ReplaceState(entries),
         notified |-> [called |-> TRUE, filters |-> filters, url |-> rewritten]]

\* an island: whether it is mounted, its filters state, whether a render
\* with new filters awaits its effect, and the last call of onFiltersChange
Unmounted == [mounted |-> FALSE, filters |-> NoFilters, dirty |-> FALSE,
              notified |-> NotNotified]

\* FilterPanel mounts: the state is initialFilters; then the effects run in
\* the order they are declared: the URL sync effect, then the URL read
\* effect, whose setFilters schedules another render
MountPanel ==
    /\ ~panel.mounted
    /\ \E initialFilters \in InitialFilters :
          LET synced == SyncEffect(url, historyLen, initialFilters)
              urlFilters == ReadURL(synced.url, AvailableVersions)
          IN  /\ url' = synced.url
              /\ historyLen' = synced.historyLen
              /\ panel' = [mounted |-> TRUE,
                           filters |-> IF HasKeys(urlFilters)
                                       THEN Merge(initialFilters, urlFilters)
                                       ELSE initialFilters,
                           dirty |-> HasKeys(urlFilters),
                           notified |-> synced.notified]
    /\ UNCHANGED <<dataVars, scrollVars, renderVars, outline, dom, timers, dispatched>>

\* the URL sync effect of FilterPanel after a render with new filters
PanelEffect ==
    /\ panel.mounted /\ panel.dirty
    /\ LET synced == SyncEffect(url, historyLen, panel.filters)
       IN  /\ url' = synced.url
           /\ historyLen' = synced.historyLen
           /\ panel' = [panel EXCEPT !.dirty = FALSE, !.notified = synced.notified]
    /\ UNCHANGED <<dataVars, scrollVars, renderVars, outline, dom, timers, dispatched>>

\* handleFilterChange(key, value) of FilterPanel
PanelChange ==
    /\ panel.mounted /\ ~panel.dirty
    /\ \E key \in {"version", "type", "dateRange"} :
          \E value \in ChangeValues[key] :
              panel' = [panel EXCEPT !.filters = HandleFilterChange(panel.filters, key, value),
                                     !.dirty = TRUE]
    /\ UNCHANGED <<dataVars, scrollVars, renderVars, url, historyLen, outline, dom, timers, dispatched>>

\* clearAllFilters() of FilterPanel
PanelClear ==
    /\ panel.mounted /\ ~panel.dirty
    /\ panel' = [panel EXCEPT !.filters = ClearAllFilters(panel.filters), !.dirty = TRUE]
    /\ UNCHANGED <<dataVars, scrollVars, renderVars, url, historyLen, outline, dom, timers, dispatched>>

\* StickyOutline mounts: the state is {}; then the URL sync effect (with
\* applyFilters) and the URL read effect run in that order
MountOutline ==
    /\ ~outline.mounted
    /\ \E clock \in UIClocks :
          LET synced == SyncEffect(url, historyLen, NoFilters)
              applied == CheckAndApplyFilters(dom, timers, <<>>, NoFilters, clock)
              urlFilters == ReadURL(synced.url, AvailableVersions)
              shown == IF HasKeys(urlFilters) THEN applied
                       ELSE ShowAllCards(applied.dom, applied.timers, applied.dispatched)
          IN  /\ url' = synced.url
              /\ historyLen' = synced.historyLen
              /\ dom' = shown.dom
              /\ timers' = shown.timers
              /\ dispatched' = shown.dispatched
              /\ outline' = [mounted |-> TRUE,
                             filters |-> IF HasKeys(urlFilters)
                                         THEN Merge(NoFilters, urlFilters)
                                         ELSE NoFilters,
                             dirty |-> HasKeys(urlFilters),
                             notified |-> synced.notified]
    /\ UNCHANGED <<dataVars, scrollVars, renderVars, panel>>

\* the URL sync effect of StickyOutline after a render with new filters:
\* updateURL(), applyFilters(), onFiltersChange(filters)
OutlineEffect ==
    /\ outline.mounted /\ outline.dirty
    /\ \E clock \in UIClocks :
          LET synced == SyncEffect(url, historyLen, outline.filters)
              applied == CheckAndApplyFilters(dom, timers, <<>>, outline.filters, clock)
          IN  /\ url' = synced.url
              /\ historyLen' = synced.historyLen
              /\ dom' = applied.dom
              /\ timers' = applied.timers
              /\ dispatched' = applied.dispatched
              /\ outline' = [outline EXCEPT !.dirty = FALSE, !.notified = synced.notified]
    /\ UNCHANGED <<dataVars, scrollVars, renderVars, panel>>

\* handleFilterChange(key, value) of StickyOutline
OutlineChange ==
    /\ outline.mounted /\ ~outline.dirty
    /\ Len(timers) < MaxTimers
    /\ \E key \in {"version", "type", "dateRange"} :
          \E value \in ChangeValues[key] :
              outline' = [outline EXCEPT !.filters = HandleFilterChange(outline.filters, key, value),
                                         !.dirty = TRUE]
    /\ UNCHANGED <<dataVars, scrollVars, renderVars, url, historyLen, panel, dom, timers, dispatched>>

\* clearAllFilters() of StickyOutline
OutlineClear ==
    /\ outline.mounted /\ ~outline.dirty
    /\ Len(timers) < MaxTimers
    /\ outline' = [outline EXCEPT !.filters = ClearAllFilters(outline.filters), !.dirty = TRUE]
    /\ UNCHANGED <<dataVars, scrollVars, renderVars, url, historyLen, panel, dom, timers, dispatched>>

\* handleClearFilters(): the document's clearFilters event reaches StickyOutline
OutlineClearFiltersEvent ==
    /\ outline.mounted /\ ~outline.dirty
    /\ Len(timers) < MaxTimers
    /\ outline' = [outline EXCEPT !.filters = ClearAllFilters(outline.filters), !.dirty = TRUE]
    /\ UNCHANGED <<dataVars, scrollVars, renderVars, url, historyLen, panel, dom, timers, dispatched>>

\* a setTimeout callback of StickyOutline fires: checkAndApplyFilters with
\* the filters of the render that scheduled it, or showAllCards
TimerFire ==
    /\ timers # <<>>
    /\ \E clock \in UIClocks :
          LET timer == Head(timers)
              ran == IF timer.fn = "checkAndApplyFilters"
                     THEN CheckAndApplyFilters(dom, Tail(timers), <<>>, timer.filters, clock)
                     ELSE ShowAllCards(dom, Tail(timers), <<>>)
          IN  /\ dom' = ran.dom
              /\ timers' = ran.timers
              /\ dispatched' = ran.dispatched
    /\ UNCHANGED <<dataVars, scrollVars, renderVars, url, historyLen, panel, outline>>

\* hydration renders the release cards, all of them visible
CardsAppear ==
    /\ ~dom.cards
    /\ dom' = [dom EXCEPT !.cards = TRUE]
    /\ UNCHANGED <<dataVars, scrollVars, renderVars, url, historyLen, panel, outline, timers, dispatched>>

\* the anchors of the page a link can point to
PageAnchors == {<<"release-2">>}

\* the user follows a link to an anchor of the page: the browser sets the
\* fragment of window.location and adds a history entry; the page is not
\* loaded again
FollowAnchorLink ==
    /\ historyLen < MaxHistory
    /\ \E anchor \in PageAnchors :
          /\ anchor # url.hash
          /\ url' = [url EXCEPT !.hash = anchor]
    /\ historyLen' = historyLen + 1
    /\ UNCHANGED <<dataVars, scrollVars, renderVars, panel, outline, dom, timers, dispatched>>

\* the URLs the page can be opened with
InitialURLs ==
    [version : {Undefined, Str(V_1_0), Str(V_1_9)},
     type : {Undefined, Str(Minor), Str(<<"bogus">>)},
     date : {Undefined, Str(<<"thisYear">>), Str(<<"bogus">>)},
     lang : {Undefined, Str(<<"fi">>)},
     hash : {<<>>, <<"release-2">>}]

\* no filter pass has run
NoPass == [fn |-> "none"]

\* the page before an island mounts, the release cards rendered
InitUI ==
    /\ url \in InitialURLs
    /\ historyLen = 1
    /\ panel = Unmounted
    /\ outline = Unmounted
    /\ dom = [cards |-> TRUE, hidden |-> {}, pass |-> NoPass]
    /\ timers = <<>>
    /\ dispatched = <<>>

\* the page before StickyOutline mounts, the release cards rendered or not yet
InitUIOutline ==
    /\ url \in InitialURLs
    /\ historyLen = 1
    /\ panel = Unmounted
    /\ outline = Unmounted
    /\ dom \in [cards : BOOLEAN, hidden : {{}}, pass : {NoPass}]
    /\ timers = <<>>
    /\ dispatched = <<>>

\* the page while no island is looked at
InitUIIdle ==
    /\ url = [version |-> Undefined, type |-> Undefined, date |-> Undefined,
              lang |-> Undefined, hash |-> <<>>]
    /\ historyLen = 1
    /\ panel = Unmounted
    /\ outline = Unmounted
    /\ dom = [cards |-> TRUE, hidden |-> {}, pass |-> NoPass]
    /\ timers = <<>>
    /\ dispatched = <<>>

\* the repository while only the islands are looked at
InitDataIdle ==
    /\ dataSource = Unreadable
    /\ heap = <<>>
    /\ ret = NoCall

-----------------------------------------------------------------------------
(* FilterPanel.tsx: useScrollTracking of StickyOutline, in its two copies *)

Null == [k |-> "null", v |-> <<>>]

\* the observed elements in the order they are observed: the release
\* containers (data-release), then the section blocks (data-section), here
\* a section of the first release
ObservedElements ==
    <<[attr |-> "data-release", id |-> <<"release-2">>],
      [attr |-> "data-release", id |-> <<"release-1-0">>],
      [attr |-> "data-section", id |-> <<"release-2-features">>]>>

\* window.innerHeight * 0.5
CenterY == 2

\* boundingClientRect and isIntersecting of an entry: above the viewport,
\* at its top edge, across its centre, and below its centre
Geometries ==
    {[top |-> 0 - 3, bottom |-> 0 - 1, isIntersecting |-> FALSE],
     [top |-> 0, bottom |-> 1, isIntersecting |-> TRUE],
     [top |-> 1, bottom |-> 5, isIntersecting |-> TRUE],
     [top |-> 3, bottom |-> 6, isIntersecting |-> TRUE]}

\* the elements one batch can report on
ObservedSubsets ==
    {S \in SUBSET (1..Len(ObservedElements)) : S # {} /\ Cardinality(S) <= MaxEntries}

\* the elements of S in the order in which they were observed
InOrder(S) ==
    [i \in 1..Cardinality(S) |->
        CHOOSE k \in S : Cardinality({m \in S : m < k}) = i - 1]

\* the batches the observer delivers: entries of distinct elements, in the
\* order in which the elements were observed
Batches ==
    UNION {{[i \in 1..Cardinality(S) |->
                [target |-> ObservedElements[InOrder(S)[i]], rect |-> g[i]]] :
              g \in [1..Cardinality(S) -> Geometries]} :
           S \in ObservedSubsets}

\* window.scrollY when the callback runs; only the earlier copy reads it
ScrollYs == {0, 10}

\* entries.sort((a, b) => rectA.top - rectB.top): a stable sort
RECURSIVE InsertByTop(_, _)
InsertByTop(sorted, e) ==
    IF sorted = <<>> THEN <<e>>
    ELSE IF e.rect.top < Head(sorted).rect.top THEN <<e>> \o sorted
    ELSE <<Head(sorted)>> \o InsertByTop(Tail(sorted), e)

RECURSIVE SortedEntries(_)
SortedEntries(entries) ==
    IF entries = <<>> THEN <<>>
    ELSE InsertByTop(SortedEntries(SubSeq(entries, 1, Len(entries) - 1)),
                     entries[Len(entries)])

\* elementBottom < centerY
HasPassed(e) == e.rect.bottom < CenterY

\* entry.isIntersecting && elementTop <= centerY && elementBottom > viewportTop
IsActive(e) == e.rect.isIntersecting /\ e.rect.top <= CenterY /\ e.rect.bottom > 0

PassedIds(sorted, attr) ==
    {sorted[i].target.id : i \in {j \in 1..Len(sorted) :
                                    sorted[j].target.attr = attr /\ HasPassed(sorted[j])}}

\* a plausible slip: the comparison turned round, the lowest element wins
RECURSIVE BestActiveLargestTop(_, _, _, _, _)
BestActiveLargestTop(sorted, attr, i, best, bestTop) ==
    IF i > Len(sorted) THEN best
    ELSE IF /\ sorted[i].target.attr = attr /\ IsActive(sorted[i])
            /\ (best = Null \/ sorted[i].rect.top > bestTop)
         THEN BestActiveLargestTop(sorted, attr, i + 1, Str(sorted[i].target.id),
                                   sorted[i].rect.top)
         ELSE BestActiveLargestTop(sorted, attr, i + 1, best, bestTop)

\* the loop of the current copy: the active element of a kind is the first
\* one whose top is smaller than the best top so far
RECURSIVE BestActive(_, _, _, _, _)
BestActive(sorted, attr, i, best, bestTop) ==
    IF i > Len(sorted) THEN best
    ELSE IF /\ sorted[i].target.attr = attr /\ IsActive(sorted[i])
            /\ (best = Null \/ sorted[i].rect.top < bestTop)
         THEN BestActive(sorted, attr, i + 1, Str(sorted[i].target.id), sorted[i].rect.top)
         ELSE BestActive(sorted, attr, i + 1, best, bestTop)

\* the loop of the earlier copy: an active element replaces the chosen one
\* when its top in the viewport is smaller than getElementTop() of the
\* chosen one, which is that one's top in the document
RECURSIVE BestActiveEarlier(_, _, _, _, _, _)
BestActiveEarlier(sorted, attr, i, best, bestTop, scrollY) ==
    IF i > Len(sorted) THEN best
    ELSE IF /\ sorted[i].target.attr = attr /\ IsActive(sorted[i])
            /\ (best = Null \/ sorted[i].rect.top < bestTop + scrollY)
         THEN BestActiveEarlier(sorted, attr, i + 1, Str(sorted[i].target.id),
                                sorted[i].rect.top, scrollY)
         ELSE BestActiveEarlier(sorted, attr, i + 1, best, bestTop, scrollY)

\* the argument handleIntersection hands to debouncedUpdate
HandleIntersection(variant, entries, scrollY) ==
    LET sorted == SortedEntries(entries)
    IN  [activeRelease |-> IF variant = "current"
                           THEN BestActive(sorted, "data-release", 1, Null, 0)
                           ELSE BestActiveEarlier(sorted, "data-release", 1, Null, 0, scrollY),
         activeSection |-> IF variant = "current"
                           THEN BestActive(sorted, "data-section", 1, Null, 0)
                           ELSE BestActiveEarlier(sorted, "data-section", 1, Null, 0, scrollY),
         passedReleases |-> PassedIds(sorted, "data-release"),
         passedSections |-> PassedIds(sorted, "data-section")]

\* a ?? b
Coalesce(a, b) == IF a = Null THEN b ELSE a

\* the updater of the current copy: a null field keeps the previous value
SetScrollState(prev, newState) ==
    [activeRelease |-> Coalesce(newState.activeRelease, prev.activeRelease),
     activeSection |-> Coalesce(newState.activeSection, prev.activeSection),
     passedReleases |-> newState.passedReleases,
     passedSections |-> newState.passedSections]

\* the updater of the earlier copy: { ...prev, ...newState }, where newState
\* has all four fields
SetScrollStateEarlier(prev, newState) == newState

\* a callback handed to requestAnimationFrame: the update it will make, the
\* batch the update was computed from, and whether updateTimeoutRef.current
\* is its handle
Callback(newState, entries) ==
    [newState |-> newState, entries |-> entries, referenced |-> TRUE]

\* cancelAnimationFrame(updateTimeoutRef.current): the callback with that
\* handle leaves the queue; a handle of a callback that has run cancels
\* nothing
RECURSIVE CancelAnimationFrame(_)
CancelAnimationFrame(queue) ==
    IF queue = <<>> THEN <<>>
    ELSE (IF Head(queue).referenced THEN <<>> ELSE <<Head(queue)>>)
         \o CancelAnimationFrame(Tail(queue))

\* updateTimeoutRef.current = requestAnimationFrame(callback): the callback
\* joins the queue, and the ref holds its handle and no other
RequestAnimationFrame(queue, callback) ==
    Append([i \in 1..Len(queue) |-> [queue[i] EXCEPT !.referenced = FALSE]], callback)

\* a plausible slip: the pending callback is not cancelled
DebouncedUpdateNoCancel(f, newState, entries) ==
    [ref |-> TRUE, cancelled |-> FALSE,
     queue |-> RequestAnimationFrame(f.queue, Callback(newState, entries))]

\* debouncedUpdate(newState), called for the batch entries; cancelled tells
\* whether this call took a pending callback out of the queue
DebouncedUpdate(f, newState, entries) ==
    LET kept == IF f.ref THEN CancelAnimationFrame(f.queue) ELSE f.queue
    IN  [ref |-> TRUE, cancelled |-> Len(kept) < Len(f.queue),
         queue |-> RequestAnimationFrame(kept, Callback(newState, entries))]

\* updateTimeoutRef.current is null and no callback is queued
NoFrame == [ref |-> FALSE, cancelled |-> FALSE, queue |-> <<>>]

InitialScrollState ==
    [activeRelease |-> Null, activeSection |-> Null,
     passedReleases |-> {}, passedSections |-> {}]

\* the observer delivers a batch: handleIntersection computes the new state
\* and hands it to debouncedUpdate
IntersectionBatch ==
    /\ \E entries \in Batches :
          \E scrollY \in IF scrollVariant = "current" THEN {0} ELSE ScrollYs :
              LET f == DebouncedUpdate(frame,
                           HandleIntersection(scrollVariant, entries, scrollY), entries)
              IN  /\ Len(f.queue) <= MaxFrames
                  /\ frame' = f
    /\ UNCHANGED <<dataVars, renderVars, url, historyLen, panel, outline, dom, timers, dispatched,
                   scrollVariant, scrollState>>

\* the next animation frame callback runs: setScrollState(prev => ...)
AnimationFrame ==
    /\ frame.queue # <<>>
    /\ scrollState' = IF scrollVariant = "current"
                      THEN SetScrollState(scrollState, Head(frame.queue).newState)
                      ELSE SetScrollStateEarlier(scrollState, Head(frame.queue).newState)
    /\ frame' = [frame EXCEPT !.queue = Tail(frame.queue)]
    /\ UNCHANGED <<dataVars, renderVars, url, historyLen, panel, outline, dom, timers, dispatched,
                   scrollVariant>>

\* the hook after its first render, in either copy of the file
InitScroll ==
    /\ scrollVariant \in {"current", "earlier"}
    /\ scrollState = InitialScrollState
    /\ frame = NoFrame

\* the hook while it is not looked at
InitScrollIdle ==
    /\ scrollVariant = "current"
    /\ scrollState = InitialScrollState
    /\ frame = NoFrame

-----------------------------------------------------------------------------
(* FilterPanel.tsx: StickyOutline's navigation structure, the responsive   *)
(* state of the two islands, and what StickyOutline renders                *)

\* Object.keys(release.content).map(...): a section per key; the title,
\* taken from the translations, is left out
MapSections(release) ==
    [i \in 1..Len(release.content) |->
        [id |-> release.content[i].key,
         anchor |-> <<"release-">> \o ReplaceDots(release.version)
                    \o <<"-", release.content[i].key>>]]

\* a plausible slip: the sections of empty arrays are not filtered out
NavigationSectionsUnfiltered(release) == MapSections(release)

\* .filter(section => Array.isArray(content[section.id]) && content[section.id].length > 0)
NavigationSections(release) ==
    SelectSeq(MapSections(release),
              LAMBDA section : Len(Lookup(release.content, section.id)) > 0)

\* navigationReleases
NavigationReleases(releases) ==
    [i \in 1..Len(releases) |->
        [version |-> releases[i].version,
         anchor |-> <<"release-">> \o ReplaceDots(releases[i].version),
         sections |-> NavigationSections(releases[i])]]

\* a plausible slip: the release is compared by its anchor, as a section is
IsActiveReleaseByAnchor(state, release) == state.activeRelease = Str(release.anchor)

\* scrollState.activeRelease === release.version
IsActiveRelease(state, release) == state.activeRelease = Str(release.version)

\* scrollState.activeSection === section.anchor
IsActiveSection(state, section) == state.activeSection = Str(section.anchor)

\* the release buttons of a rendering, without or with their sections
RenderReleases(nav, state, withSections) ==
    [i \in 1..Len(nav) |->
        [version |-> nav[i].version,
         anchor |-> nav[i].anchor,
         isActive |-> IsActiveRelease(state, nav[i]),
         isPassed |-> nav[i].version \in state.passedReleases,
         sections |->
            IF withSections
            THEN [j \in 1..Len(nav[i].sections) |->
                     [id |-> nav[i].sections[j].id,
                      anchor |-> nav[i].sections[j].anchor,
                      isActive |-> IsActiveSection(state, nav[i].sections[j]),
                      isPassed |-> nav[i].sections[j].anchor \in state.passedSections]]
            ELSE <<>>]]

\* what StickyOutline returns: the chips of the mobile layout unless
\* collapsed, the stacked tree of the tablet layout, or the sticky tree
Render(releases, lay, state) ==
    IF lay.isMobile
    THEN [mode |-> "mobile",
          items |-> IF lay.isCollapsed THEN <<>>
                    ELSE RenderReleases(NavigationReleases(releases), state, FALSE)]
    ELSE IF lay.isTablet
    THEN [mode |-> "tablet",
          items |-> RenderReleases(NavigationReleases(releases), state, TRUE)]
    ELSE [mode |-> "desktop",
          items |-> RenderReleases(NavigationReleases(releases), state, TRUE)]

NotRendered == [mode |-> "none", items |-> <<>>]

\* checkBreakpoints() of StickyOutline
CheckBreakpoints(lay) ==
    [lay EXCEPT !.isMobile = lay.width <= 768,
                !.isTablet = lay.width > 768 /\ lay.width < 1024]

\* checkMobile() of FilterPanel
CheckMobile(lay) == [lay EXCEPT !.panelIsMobile = lay.width < 768]

\* the widths the window can have: around the two thresholds
Widths == {767, 768, 769, 1023, 1024, 1025}

\* the state of both islands before their layout effects have run
InitialLayout(width) ==
    [width |-> width,
     outlineMounted |-> FALSE, isMobile |-> FALSE, isTablet |-> FALSE,
     isCollapsed |-> FALSE,
     panelMounted |-> FALSE, panelIsMobile |-> FALSE]

\* the releases prop of StickyOutline: the list loadReleases() returned
ReleasesProp == heap[ret.out]

\* StickyOutline mounts with the loaded releases: it renders, its layout
\* effect calls checkBreakpoints and listens to resize, and it renders again
MountOutlineLayout ==
    /\ ret.op = "load" /\ ret.ok
    /\ ~layout.outlineMounted
    /\ layout' = [CheckBreakpoints(layout) EXCEPT !.outlineMounted = TRUE]
    /\ view' = Render(ReleasesProp, layout', scrollState)
    /\ UNCHANGED <<dataVars, scrollVars, url, historyLen, panel, outline, dom, timers,
                   dispatched, hook>>

\* FilterPanel mounts: its layout effect calls checkMobile and listens to
\* resize
MountPanelLayout ==
    /\ ~layout.panelMounted
    /\ layout' = [CheckMobile(layout) EXCEPT !.panelMounted = TRUE]
    /\ UNCHANGED <<dataVars, scrollVars, view, url, historyLen, panel, outline, dom,
                   timers, dispatched, hook>>

\* the window is resized: the resize listeners of the mounted islands run
Resize ==
    /\ layout.outlineMounted \/ layout.panelMounted
    /\ \E width \in Widths :
          LET resized == [layout EXCEPT !.width = width]
              checked == IF layout.outlineMounted THEN CheckBreakpoints(resized)
                         ELSE resized
          IN  layout' = IF layout.panelMounted THEN CheckMobile(checked) ELSE checked
    /\ view' = IF layout.outlineMounted
               THEN Render(ReleasesProp, layout', scrollState)
               ELSE view
    /\ UNCHANGED <<dataVars, scrollVars, url, historyLen, panel, outline, dom, timers,
                   dispatched, hook>>

\* the toggle button of the mobile layout: setIsCollapsed(!isCollapsed)
ToggleCollapsed ==
    /\ layout.outlineMounted /\ view.mode = "mobile"
    /\ layout' = [layout EXCEPT !.isCollapsed = ~layout.isCollapsed]
    /\ view' = Render(ReleasesProp, layout', scrollState)
    /\ UNCHANGED <<dataVars, scrollVars, url, historyLen, panel, outline, dom, timers,
                   dispatched, hook>>

\* the identifiers a release container can carry in data-release: the
\* version of a release or its anchor
ContainerIds(nav) ==
    {nav[i].version : i \in 1..Len(nav)} \cup {nav[i].anchor : i \in 1..Len(nav)}

\* the identifiers of the section blocks in data-section
SectionIds(nav) ==
    UNION {{nav[i].sections[j].anchor : j \in 1..Len(nav[i].sections)} :
           i \in 1..Len(nav)}

\* the updates handleIntersection can hand over for the page's containers
ScrollUpdates(nav) ==
    [activeRelease : {Null} \cup {Str(id) : id \in ContainerIds(nav)},
     activeSection : {Null} \cup {Str(id) : id \in SectionIds(nav)},
     passedReleases : {{}},
     passedSections : {{}}]

\* an animation frame callback of useScrollTracking runs in the mounted
\* outline: setScrollState(prev => ...), and StickyOutline renders again
ScrollUpdate ==
    /\ layout.outlineMounted
    /\ \E newState \in ScrollUpdates(NavigationReleases(ReleasesProp)) :
          scrollState' = SetScrollState(scrollState, newState)
    /\ view' = Render(ReleasesProp, layout, scrollState')
    /\ UNCHANGED <<dataVars, scrollVariant, frame, layout, url, historyLen, panel,
                   outline, dom, timers, dispatched, hook>>

\* releases of the data file the outline is rendered for: sections that are
\* filled and empty, an empty content, versions with one and two dots, and
\* a version written with a dash
OutlineRecords ==
    {Current(V_2, IsoDate(2025, 1), Hotfix, FeaturesX),
     Current(V_1d0, IsoDate(2021, 1), Minor, FeaturesX),
     Current(V_1_9_0, IsoDate(2024, 1), Minor,
             Obj(<<Entry("bugfixes", Strings(<<"c">>)),
                   Entry("features", Strings(<<>>)),
                   Entry("notes", Strings(<<"n">>))>>)),
     Current(V_1_0, IsoDate(2023, 1), Minor, Obj(<<>>)),
     Current(V_1_10, IsoDate(2022, 1), Minor,
             Obj(<<Entry("features", Strings(<<>>))>>))}

\* observerRef.current is null, nothing is observed, no setupObservers
\* timeout is pending
NoObserver ==
    [unmounted |-> FALSE, observed |-> {}, queued |-> {}, setupTimeout |-> FALSE,
     position |-> 1]

\* the islands while they are not looked at
InitRenderIdle ==
    /\ layout = InitialLayout(1024)
    /\ view = NotRendered
    /\ hook = NoObserver

\* the page after loadReleases() has resolved, before the islands mount
InitRender ==
    /\ dataSource \in {JsonArray(items) : items \in SeqsUpTo(OutlineRecords, MaxOutline)}
    /\ heap = LoadReleases(dataSource).heap
    /\ ret = [op |-> "load", ok |-> LoadReleases(dataSource).ok,
              error |-> LoadReleases(dataSource).error,
              out |-> LoadReleases(dataSource).ref]
    /\ InitUIIdle
    /\ InitScrollIdle
    /\ layout \in {InitialLayout(width) : width \in Widths}
    /\ view = NotRendered
    /\ hook = NoObserver

-----------------------------------------------------------------------------
(* FilterPanel.tsx: the life of StickyOutline's observer: registration,   *)
(* re-renders, unmount                                                     *)

\* what document.querySelectorAll('[data-release]') and ('[data-section]')
\* find: the indices of ObservedElements
Elements == 1..Len(ObservedElements)

\* the rectangles of the observed elements at two scroll positions: at the
\* top of the page, and scrolled down to the second release
PagePositions ==
    <<<<[top |-> 1, bottom |-> 5, isIntersecting |-> TRUE],
        [top |-> 3, bottom |-> 6, isIntersecting |-> TRUE],
        [top |-> 1, bottom |-> 5, isIntersecting |-> TRUE]>>,
      <<[top |-> 0 - 3, bottom |-> 0 - 1, isIntersecting |-> FALSE],
        [top |-> 0, bottom |-> 1, isIntersecting |-> TRUE],
        [top |-> 0 - 3, bottom |-> 0 - 1, isIntersecting |-> FALSE]>>>>

\* the batch the observer delivers for the elements of S at a position
EntriesAt(S, position) ==
    [i \in 1..Cardinality(S) |->
        [target |-> ObservedElements[InOrder(S)[i]],
         rect |-> PagePositions[position][InOrder(S)[i]]]]

\* the elements whose isIntersecting differs between two positions
Crossing(from, to) ==
    {i \in Elements : PagePositions[from][i].isIntersecting
                        # PagePositions[to][i].isIntersecting}

\* observe(element) for each element found: an element not yet observed
\* is registered, and the observer owes it an initial entry
SetupObserversBody(h) ==
    [h EXCEPT !.setupTimeout = FALSE,
              !.observed = Elements,
              !.queued = h.queued \cup (Elements \ h.observed)]

\* the cleanup of the observer effect: clearTimeout(timeoutId), and
\* unobserve(element) for each element found
ObserverEffectCleanup(h) ==
    [h EXCEPT !.setupTimeout = FALSE, !.observed = {}, !.queued = {}]

\* the observer effect: setTimeout(setupObservers, 100)
ObserverEffect(h) == [h EXCEPT !.setupTimeout = TRUE]

\* StickyOutline renders again: navigationReleases is built anew by
\* releases.map(), so the dependency `releases` of the observer effect has
\* changed and React runs the effect's cleanup and the effect again
Rerender(h) == ObserverEffect(ObserverEffectCleanup(h))

\* the setupObservers timeout fires
SetupObservers ==
    /\ hook.setupTimeout
    /\ hook' = SetupObserversBody(hook)
    /\ UNCHANGED <<dataVars, scrollVars, layout, view, url, historyLen, panel, outline,
                   dom, timers, dispatched>>

\* the observer delivers the entries it owes: handleIntersection computes
\* an update and hands it to debouncedUpdate
ObserverCallback ==
    /\ hook.queued # {}
    /\ LET entries == EntriesAt(hook.queued, hook.position)
       IN  frame' = DebouncedUpdate(frame, HandleIntersection("current", entries, 0),
                                    entries)
    /\ hook' = [hook EXCEPT !.queued = {}]
    /\ UNCHANGED <<dataVars, scrollVariant, scrollState, layout, view, url, historyLen,
                   panel, outline, dom, timers, dispatched>>

\* the animation frame callback runs: setScrollState() stores a new object,
\* so StickyOutline renders again
OutlineAnimationFrame ==
    /\ frame.queue # <<>>
    /\ scrollState' = SetScrollState(scrollState, Head(frame.queue).newState)
    /\ frame' = [frame EXCEPT !.queue = Tail(frame.queue)]
    /\ hook' = Rerender(hook)
    /\ UNCHANGED <<dataVars, scrollVariant, layout, view, url, historyLen, panel,
                   outline, dom, timers, dispatched>>

\* the type filters the user picks while the observer is looked at
TypeChoices == {Str(Minor), Str(<<>>)}

\* handleFilterChange('type', value): setFilters() stores a new object,
\* StickyOutline renders again and the URL sync effect runs
OutlineFilterChange ==
    /\ ~hook.unmounted
    /\ Len(timers) < MaxTimers
    /\ \E value \in TypeChoices :
          \E clock \in UIClocks :
              LET changed == HandleFilterChange(outline.filters, "type", value)
                  synced == SyncEffect(url, historyLen, changed)
                  applied == CheckAndApplyFilters(dom, timers, <<>>, changed, clock)
              IN  /\ url' = synced.url
                  /\ historyLen' = synced.historyLen
                  /\ dom' = applied.dom
                  /\ timers' = applied.timers
                  /\ dispatched' = applied.dispatched
                  /\ outline' = [outline EXCEPT !.filters = changed,
                                                !.notified = synced.notified]
    /\ hook' = Rerender(hook)
    /\ UNCHANGED <<dataVars, scrollVars, layout, view, panel>>

\* the widths the window is resized to while the observer is looked at
ResizeWidths == {768, 1024}

\* the resize listener of StickyOutline: setIsMobile and setIsTablet store
\* booleans, so StickyOutline renders again only if one of them changed
OutlineResize ==
    /\ ~hook.unmounted
    /\ \E width \in ResizeWidths :
          /\ layout' = CheckBreakpoints([layout EXCEPT !.width = width])
          /\ hook' = IF layout'.isMobile # layout.isMobile
                        \/ layout'.isTablet # layout.isTablet
                     THEN Rerender(hook)
                     ELSE hook
    /\ UNCHANGED <<dataVars, scrollVars, view, url, historyLen, panel, outline, dom,
                   timers, dispatched>>

\* the user scrolls: the observer owes an entry to each observed element
\* whose intersection with the band changed
Scroll ==
    /\ \E position \in 1..Len(PagePositions) :
          /\ position # hook.position
          /\ hook' = [hook EXCEPT !.position = position,
                                  !.queued = hook.queued
                                      \cup (Crossing(hook.position, position)
                                                \cap hook.observed)]
    /\ UNCHANGED <<dataVars, scrollVars, layout, view, url, historyLen, panel, outline,
                   dom, timers, dispatched>>

\* the cleanup of the unmount effect: disconnect(), and
\* cancelAnimationFrame(updateTimeoutRef.current) if the ref is not null
UnmountCleanup(f) ==
    [f EXCEPT !.queue = IF f.ref THEN CancelAnimationFrame(f.queue) ELSE f.queue]

\* StickyOutline unmounts: React runs the cleanups of its effects: that of
\* the observer effect, that of the unmount effect, and the removal of the
\* resize and clearFilters listeners; the URL sync effect has no cleanup
Unmount ==
    /\ ~hook.unmounted
    /\ hook' = [ObserverEffectCleanup(hook) EXCEPT !.unmounted = TRUE]
    /\ frame' = UnmountCleanup(frame)
    /\ outline' = [outline EXCEPT !.mounted = FALSE]
    /\ layout' = [layout EXCEPT !.outlineMounted = FALSE]
    /\ UNCHANGED <<dataVars, scrollVariant, scrollState, view, url, historyLen, panel,
                   dom, timers, dispatched>>

\* StickyOutline after it has mounted on a page opened without query
\* parameters: the URL sync effect and the URL read effect have run their
\* filter passes or scheduled their retries, the layout effect has run, and
\* the observer effect has scheduled setupObservers
InitLifecycle ==
    /\ InitDataIdle
    /\ InitScrollIdle
    /\ url = [version |-> Undefined, type |-> Undefined, date |-> Undefined,
              lang |-> Undefined, hash |-> <<>>]
    /\ historyLen = 1
    /\ panel = Unmounted
    /\ outline = [mounted |-> TRUE, filters |-> NoFilters, dirty |-> FALSE,
                  notified |-> SyncEffect(url, historyLen, NoFilters).notified]
    /\ \E cards \in BOOLEAN :
          \E clock \in UIClocks :
              LET before == [cards |-> cards, hidden |-> {}, pass |-> NoPass]
                  applied == CheckAndApplyFilters(before, <<>>, <<>>, NoFilters, clock)
                  shown == ShowAllCards(applied.dom, applied.timers, applied.dispatched)
              IN  /\ dom = shown.dom
                  /\ timers = shown.timers
                  /\ dispatched = shown.dispatched
    /\ layout \in {[CheckBreakpoints(InitialLayout(width)) EXCEPT !.outlineMounted = TRUE] :
                     width \in ResizeWidths}
    /\ view = NotRendered
    /\ hook = ObserverEffect(NoObserver)

-----------------------------------------------------------------------------
(* The specifications *)

Init == InitData /\ InitUIIdle /\ InitScrollIdle /\ InitRenderIdle

Next == Load \/ Reload \/ Filter \/ Compare \/ UniqueVersions

\* the release repository
Spec == Init /\ [][Next]_vars

InitIslands == InitDataIdle /\ InitUI /\ InitScrollIdle /\ InitRenderIdle

NextIslands ==
    \/ MountPanel \/ PanelEffect \/ PanelChange \/ PanelClear
    \/ MountOutline \/ OutlineEffect \/ OutlineChange \/ OutlineClear
    \/ OutlineClearFiltersEvent

\* the two islands and the URL, the release cards rendered from the start
SpecIslands == InitIslands /\ [][NextIslands]_vars

InitOutline == InitDataIdle /\ InitUIOutline /\ InitScrollIdle /\ InitRenderIdle

NextOutline ==
    \/ MountOutline \/ OutlineEffect \/ OutlineChange \/ OutlineClear
    \/ OutlineClearFiltersEvent \/ TimerFire \/ CardsAppear

NextDeepLink == NextIslands \/ FollowAnchorLink

\* the two islands on a page whose anchors the user follows
SpecDeepLink == InitIslands /\ [][NextDeepLink]_vars

\* StickyOutline, the release cards and the retry timers
SpecOutline == InitOutline /\ [][NextOutline]_vars

\* a pending timer fires after its delay
SpecOutlineFair == SpecOutline /\ WF_vars(TimerFire)

InitScrollTracking == InitDataIdle /\ InitUIIdle /\ InitScroll /\ InitRenderIdle

NextScroll == IntersectionBatch \/ AnimationFrame

\* the scroll tracking of StickyOutline
SpecScroll == InitScrollTracking /\ [][NextScroll]_vars

InitScrollCurrent == InitDataIdle /\ InitUIIdle /\ InitScrollIdle /\ InitRenderIdle

\* the scroll tracking of the current copy of StickyOutline
SpecScrollCurrent == InitScrollCurrent /\ [][NextScroll]_vars

NextRender ==
    \/ MountOutlineLayout \/ MountPanelLayout \/ Resize \/ ToggleCollapsed
    \/ ScrollUpdate

\* the layout and the rendering of the islands for a loaded release list
SpecRender == InitRender /\ [][NextRender]_vars

NextLifecycle ==
    \/ SetupObservers \/ ObserverCallback \/ OutlineAnimationFrame
    \/ OutlineFilterChange \/ OutlineResize \/ Scroll \/ Unmount
    \/ TimerFire \/ CardsAppear

\* the mounted StickyOutline: its observer, its re-renders, its unmount
SpecLifecycle == InitLifecycle /\ [][NextLifecycle]_vars

NextQuiet ==
    \/ SetupObservers \/ ObserverCallback \/ OutlineAnimationFrame
    \/ TimerFire \/ CardsAppear

\* the mounted StickyOutline on a page the user leaves alone: a timeout
\* fires after its delay, the observer delivers the entries it owes, and a
\* requested animation frame comes
SpecLifecycleQuiet ==
    /\ InitLifecycle /\ [][NextQuiet]_vars
    /\ WF_vars(SetupObservers) /\ WF_vars(ObserverCallback)
    /\ WF_vars(OutlineAnimationFrame)

-----------------------------------------------------------------------------
(* Properties of the repository *)

Loaded == ret.op = "load" /\ ret.ok
LoadedList == heap[ret.out]

Later(d1, d2) == d1.y > d2.y \/ (d1.y = d2.y /\ d1.p > d2.p)

\* a version all of whose dot-separated segments are decimal numbers
DottedNumeric(v) ==
    \A k \in 1..Len(SplitDots(v)) :
        SplitDots(v)[k] # <<>> /\ AllDigits(SplitDots(v)[k])

SegmentValue(v, k) ==
    IF k > Len(SplitDots(v)) THEN 0 ELSE DecimalValue(SplitDots(v)[k])

SegmentCount(a, b) == Max(Len(SplitDots(a)), Len(SplitDots(b)))

\* the first segment in which a and b differ is greater in a
VersionGreater(a, b) ==
    \E k \in 1..SegmentCount(a, b) :
        /\ SegmentValue(a, k) > SegmentValue(b, k)
        /\ \A m \in 1..(k - 1) : SegmentValue(a, m) = SegmentValue(b, m)

\* C1: in every list load() returns, a release with a later date stands
\* before one with an earlier date, and of two releases with the same date
\* the one with the greater dotted-numeric version stands first.
C1_LoadedListOrdered ==
    Loaded =>
        \A i \in 1..Len(LoadedList), j \in 1..Len(LoadedList) :
            /\ Later(LoadedList[i].date, LoadedList[j].date) => i < j
            /\ (/\ LoadedList[i].date = LoadedList[j].date
                /\ DottedNumeric(LoadedList[i].version)
                /\ DottedNumeric(LoadedList[j].version)
                /\ VersionGreater(LoadedList[i].version, LoadedList[j].version))
               => i < j

\* the file lists two releases of one date with the smaller version first,
\* and load() returns them the other way round
C1_Witness ==
    /\ Loaded /\ Len(LoadedList) = 2
    /\ LoadedList[1].date = LoadedList[2].date
    /\ VersionGreater(LoadedList[1].version, LoadedList[2].version)
    /\ dataSource.items[1].version.v = LoadedList[2].version

\* C2 as stated: of two releases with the same date, "1.9.0" stands before
\* "1.10.0" in the list load() returns.
C2_Original ==
    Loaded =>
        \A i \in 1..Len(LoadedList), j \in 1..Len(LoadedList) :
            (/\ LoadedList[i].version = V_1_9_0
             /\ LoadedList[j].version = V_1_10_0
             /\ LoadedList[i].date = LoadedList[j].date) => i < j

\* C2 as amended: of two releases with the same date, "1.10.0" stands
\* before "1.9.0" in the list load() returns.
C2_GreaterVersionFirst ==
    Loaded =>
        \A i \in 1..Len(LoadedList), j \in 1..Len(LoadedList) :
            (/\ LoadedList[i].version = V_1_9_0
             /\ LoadedList[j].version = V_1_10_0
             /\ LoadedList[i].date = LoadedList[j].date) => j < i

C2_Witness ==
    /\ Loaded /\ Len(LoadedList) = 2
    /\ LoadedList[1].version = V_1_10_0 /\ LoadedList[2].version = V_1_9_0
    /\ LoadedList[1].date = LoadedList[2].date
    /\ dataSource.items[1].version.v = V_1_9_0

\* C3: compareVersions(a, b) compares the dot-separated segments as
\* integers from left to right, a missing trailing segment counting as 0;
\* the first segment that differs decides the sign, and the result is 0
\* when none differs ("1.0" ties with "1.0.0", "1.10" is greater than "1.9").
C3_CompareVersionsBySegments ==
    (ret.op = "compareVersions" /\ DottedNumeric(ret.a) /\ DottedNumeric(ret.b)) =>
        /\ ret.out \in {-1, 0, 1}
        /\ ret.out = 1 <=> VersionGreater(ret.a, ret.b)
        /\ ret.out = -1 <=> VersionGreater(ret.b, ret.a)
        /\ ret.out = 0 <=>
              \A k \in 1..SegmentCount(ret.a, ret.b) :
                  SegmentValue(ret.a, k) = SegmentValue(ret.b, k)
        /\ (ret.a = V_1_0 /\ ret.b = V_1_0_0) => ret.out = 0
        /\ (ret.a = V_1_10 /\ ret.b = V_1_9) => ret.out = 1

C3_Witness ==
    /\ ret.op = "compareVersions"
    /\ ret.a = V_1_10 /\ ret.b = V_1_9 /\ ret.out = 1

Filtered == ret.op = "filter"
FilterInput == heap[ret.in]
FilterOutput == heap[ret.out]

\* membership of a release in a date range, by calendar years
InRange(release, range, clock) ==
    LET releaseYear == GetFullYear(release.date, clock.tz)
        currentYear == GetFullYear(clock.now, clock.tz)
    IN  \/ range = <<"thisYear">> /\ releaseYear = currentYear
        \/ range = <<"lastYear">> /\ releaseYear + 1 = currentYear
        \/ range = <<"older">> /\ releaseYear + 1 < currentYear

\* a release satisfies every constraint that is present
Satisfies(release, filters, clock) ==
    /\ filters.version.k = "string" => release.version = filters.version.v
    /\ filters.dateRange.k = "string" => InRange(release, filters.dateRange.v, clock)
    /\ filters.type.k = "string" => release.type = filters.type.v

\* a release satisfies every constraint that is present and not empty
SatisfiesNonEmpty(release, filters, clock) ==
    /\ (filters.version.k = "string" /\ filters.version.v # <<>>)
          => release.version = filters.version.v
    /\ (filters.dateRange.k = "string" /\ filters.dateRange.v # <<>>)
          => InRange(release, filters.dateRange.v, clock)
    /\ (filters.type.k = "string" /\ filters.type.v # <<>>)
          => release.type = filters.type.v

\* C4 as stated: filter() returns exactly the subsequence of the releases
\* that satisfy every non-absent constraint, in their original order.
C4_Original ==
    Filtered =>
        FilterOutput =
            SelectSeq(FilterInput, LAMBDA r : Satisfies(r, ret.filters, ret.clock))

\* C4 as amended: filter() returns exactly the subsequence of the releases
\* that satisfy every constraint that is neither absent nor the empty
\* string, in their original order; the empty FilterState returns them all.
C4_FilterIsSubsequence ==
    Filtered =>
        /\ FilterOutput =
              SelectSeq(FilterInput,
                        LAMBDA r : SatisfiesNonEmpty(r, ret.filters, ret.clock))
        /\ (ret.filters = [version |-> Undefined, dateRange |-> Undefined,
                           type |-> Undefined]) => FilterOutput = FilterInput

\* a type filter keeps the second of two releases and drops the first
C4_Witness ==
    /\ Filtered /\ Len(FilterInput) = 2
    /\ ret.filters.type = Str(Hotfix) /\ ret.filters.version = Undefined
    /\ ret.filters.dateRange = Undefined
    /\ FilterInput[1].type = Minor
    /\ FilterOutput = <<FilterInput[2]>>

\* C5: filter() is pure: the input array holds the same elements in the
\* same order after the call, and the result is another array.
C5_FilterIsPure ==
    [][ret'.op = "filter" =>
          /\ ret'.in = ret.out
          /\ ret'.out # ret'.in
          /\ heap'[ret'.in] = heap[ret.out]]_vars

C5_Witness ==
    /\ Filtered /\ ret.out # ret.in
    /\ Len(FilterInput) = 2 /\ Len(FilterOutput) = 1

\* C6: a release of the current year is in thisYear only, one of the year
\* before in lastYear only, one of an earlier year in older only, and one
\* of a later year in none: a filter with any dateRange excludes it.
C6_DateRangesByYear ==
    (Filtered /\ ret.filters.dateRange.k = "string") =>
        \A i \in 1..Len(FilterInput) :
            LET r == FilterInput[i]
                releaseYear == GetFullYear(r.date, ret.clock.tz)
                currentYear == GetFullYear(ret.clock.now, ret.clock.tz)
                kept == \E j \in 1..Len(FilterOutput) : FilterOutput[j] = r
                range == ret.filters.dateRange.v
                only == ~Truthy(ret.filters.version) /\ ~Truthy(ret.filters.type)
            IN  /\ releaseYear > currentYear => ~kept
                /\ (only /\ releaseYear = currentYear)
                      => (kept <=> range = <<"thisYear">>)
                /\ (only /\ releaseYear = currentYear - 1)
                      => (kept <=> range = <<"lastYear">>)
                /\ (only /\ releaseYear < currentYear - 1)
                      => (kept <=> range = <<"older">>)

\* a release of next year and one of an earlier year under "older"
C6_Witness ==
    /\ Filtered /\ ret.filters.dateRange = Str(<<"older">>)
    /\ Len(FilterInput) = 2 /\ Len(FilterOutput) = 1
    /\ GetFullYear(FilterInput[1].date, ret.clock.tz)
          > GetFullYear(ret.clock.now, ret.clock.tz)
    /\ FilterOutput[1] = FilterInput[2]

\* a record of the legacy shape
IsLegacyRecord(item) ==
    /\ VersionSchema(item.version) /\ DateSchema(item.date)
    /\ ReleaseTypeSchema(item.type)
    /\ item.content.k = "undefined"
    /\ \A key \in {"highlights", "features", "improvements", "bugfixes"} :
          item[key].k \in {"undefined", "strings"}

StringArrayFields(item) ==
    {key \in {"highlights", "features", "improvements", "bugfixes", "notes"} :
        item[key].k = "strings"}

\* the loaded release made from an item has exactly its string-array fields
NormalizedFrom(release, item) ==
    /\ release.version = item.version.v
    /\ release.type = item.type.v
    /\ release.date = [y |-> item.date.y, p |-> item.date.p]
    /\ Keys(release.content) = StringArrayFields(item)
    /\ Len(release.content) = Cardinality(StringArrayFields(item))
    /\ \A key \in StringArrayFields(item) :
          Lookup(release.content, key) = item[key].v

\* C7: a legacy record loads, and its content has exactly the string-array
\* fields it has as keys, each with the same array; an absent field gives
\* no key.
C7_LegacyRecordNormalized ==
    (ret.op = "load" /\ dataSource.k = "array") =>
        /\ (\A i \in 1..Len(dataSource.items) : IsLegacyRecord(dataSource.items[i]))
              => ret.ok
        /\ ret.ok =>
              \A i \in 1..Len(dataSource.items) :
                  IsLegacyRecord(dataSource.items[i]) =>
                      \E j \in 1..Len(LoadedList) :
                          NormalizedFrom(LoadedList[j], dataSource.items[i])

\* the example of the specification: highlights and features only
C7_Witness ==
    /\ Loaded /\ dataSource.k = "array" /\ Len(dataSource.items) = 1
    /\ IsLegacyRecord(dataSource.items[1])
    /\ StringArrayFields(dataSource.items[1]) = {"highlights", "features"}
    /\ Keys(LoadedList[1].content) = {"highlights", "features"}

\* C8: a record whose version is the empty string fails the direct and
\* the legacy-recovery validation, so load() of an array with it fails.
C8_EmptyVersionRejected ==
    (ret.op = "load" /\ dataSource.k = "array") =>
        \A i \in 1..Len(dataSource.items) :
            dataSource.items[i].version = Str(<<>>) =>
                /\ ~ReleaseSchema(dataSource.items[i])
                /\ ~ReleaseSchema(Transform(dataSource.items[i]))
                /\ ~ret.ok

\* the empty version is all that is wrong with the record
C8_Witness ==
    /\ ret.op = "load" /\ ~ret.ok /\ dataSource.k = "array"
    /\ Len(dataSource.items) = 1
    /\ dataSource.items[1].version = Str(<<>>)
    /\ ReleaseSchema([dataSource.items[1] EXCEPT !.version = Str(V_1_0)])

FailsBoth(item) == ~ReleaseSchema(item) /\ ~ReleaseSchema(Transform(item))

\* C9: load() returns no partial result: when a record fails both
\* validations, or the data source cannot be read, it returns no release
\* and fails with the one uniform load failure.
C9_NoPartialResult ==
    (/\ ret.op = "load"
     /\ \/ dataSource.k = "unreadable"
        \/ \E i \in 1..Len(dataSource.items) : FailsBoth(dataSource.items[i])) =>
        /\ ~ret.ok
        /\ heap = <<>> /\ ret.out = 0
        /\ ret.error = "Failed to load release data"

\* one record of the array is valid, the other fails both validations
C9_Witness ==
    /\ ret.op = "load" /\ ~ret.ok /\ ret.error = "Failed to load release data"
    /\ dataSource.k = "array" /\ Len(dataSource.items) = 2
    /\ ReleaseSchema(dataSource.items[1])
    /\ FailsBoth(dataSource.items[2])

-----------------------------------------------------------------------------
(* Properties of the islands *)

ParamOf(key) == IF key = "dateRange" THEN "date" ELSE key

\* the island's mount effects have run and left nothing to do
MountSettles(before, after) == ~before.mounted /\ after.mounted /\ ~after.dirty

\* C10: after initialization with a URL that carries a valid type, date or
\* version parameter, once the mount effects have settled, the FilterState
\* holds those values and the URL still carries them.
C10_Original ==
    [][\A key \in {"version", "type", "dateRange"} :
          (/\ MountSettles(panel, panel') \/ MountSettles(outline, outline')
           /\ ReadURL(url, AvailableVersions)[key].k = "string") =>
              /\ MountSettles(panel, panel') => panel'.filters[key] = url[ParamOf(key)]
              /\ MountSettles(outline, outline') => outline'.filters[key] = url[ParamOf(key)]
              /\ url'[ParamOf(key)] = url[ParamOf(key)]]_vars

FilterKeys == {"version", "type", "dateRange"}

\* the value a URL parameter must have to be accepted for a FilterState field
ValidFor(key, value) ==
    /\ value.k = "string"
    /\ \/ key = "version" /\ Includes(AvailableVersions, value.v)
       \/ key = "type" /\ value.v \in ReleaseTypes
       \/ key = "dateRange" /\ value.v \in DateRanges

Mounts(before, after) == ~before.mounted /\ after.mounted

\* C11: initialization from the URL accepts each of version, type and date
\* exactly when its value is a member of the available versions, of
\* ReleaseType or of DateRange, whatever the other parameters are: after the
\* mount a valid parameter is the FilterState's field, an invalid one is not.
C11_Original ==
    [][\A key \in FilterKeys :
          /\ Mounts(panel, panel') =>
                IF ValidFor(key, url[ParamOf(key)])
                THEN panel'.filters[key] = url[ParamOf(key)]
                ELSE url[ParamOf(key)].k = "string" => panel'.filters[key] # url[ParamOf(key)]
          /\ Mounts(outline, outline') =>
                IF ValidFor(key, url[ParamOf(key)])
                THEN outline'.filters[key] = url[ParamOf(key)]
                ELSE outline'.filters[key] = Undefined]_vars

\* the island's URL sync effect runs for a render after the mount
EffectRuns(before, after) == before.mounted /\ before.dirty /\ ~after.dirty

\* the URL carries a parameter exactly when the field is non-absent, equal
Carries(u, filters) ==
    \A key \in FilterKeys : u[ParamOf(key)] = filters[key]

\* C12: after a filter change, once its effect has run, the URL carries
\* version, type or date exactly when the FilterState field is non-absent,
\* with an equal value, and the history has as many entries as before.
C12_URLReflectsFilters ==
    [][/\ EffectRuns(panel, panel') =>
             Carries(url', panel'.filters) /\ historyLen' = historyLen
       /\ EffectRuns(outline, outline') =>
             Carries(url', outline'.filters) /\ historyLen' = historyLen]_vars

\* a type and a date range were chosen in the panel, no version, and the
\* URL has been rewritten to that
C12_Witness ==
    /\ panel.mounted /\ ~panel.dirty
    /\ panel.filters = [NoFilters EXCEPT !.type = Str(Minor),
                                         !.dateRange = Str(<<"older">>)]
    /\ url.type = Str(Minor) /\ url.date = Str(<<"older">>) /\ url.version = Undefined
    /\ historyLen = 1

ValidFilterState(filters) ==
    \A key \in FilterKeys : filters[key] = Undefined \/ ValidFor(key, filters[key])

\* C13: for a FilterState F of valid fields, parsing the URL written for F
\* by the initialization rule gives F; the URL written for F is the one the
\* observer saw when it was told F.
C13_URLRoundTrip ==
    \A island \in {panel, outline} :
        (island.notified.called /\ ValidFilterState(island.notified.filters)) =>
            ReadURL(island.notified.url, AvailableVersions) = island.notified.filters

\* the URL written for { type: minor, dateRange: thisYear }
C13_Witness ==
    /\ panel.notified.called
    /\ panel.notified.filters = [NoFilters EXCEPT !.type = Str(Minor),
                                                  !.dateRange = Str(<<"thisYear">>)]
    /\ panel.notified.url.type = Str(Minor)
    /\ panel.notified.url.date = Str(<<"thisYear">>)

NoFilterParams(u) ==
    u.version = Undefined /\ u.type = Undefined /\ u.date = Undefined

\* C14: clearAll() of either component and the clearFilters event of the
\* outline leave the FilterState empty, and the effect that follows leaves
\* the URL without version, type and date.
C14_ClearAllEmptiesFiltersAndURL ==
    [][/\ PanelClear => panel'.filters = NoFilters
       /\ (OutlineClear \/ OutlineClearFiltersEvent) => outline'.filters = NoFilters
       /\ (EffectRuns(panel, panel') /\ panel.filters = NoFilters) => NoFilterParams(url')
       /\ (EffectRuns(outline, outline') /\ outline.filters = NoFilters) =>
             NoFilterParams(url')]_vars

\* two filters were set and told to the observer, then all were cleared
\* at once, and the effect has emptied the URL
C14_Witness ==
    /\ panel.mounted /\ panel.dirty /\ panel.filters = NoFilters
    /\ panel.notified.called
    /\ panel.notified.filters = [NoFilters EXCEPT !.version = Str(V_1_0),
                                                  !.type = Str(Minor)]
    /\ url.version = Str(V_1_0) /\ url.type = Str(Minor)

\* C15: a filter change leaves every URL parameter other than version, type
\* and date as it was.
C15_OtherParamsKept ==
    [][url'.lang = url.lang]_vars

\* the URL has another parameter and was rewritten for a chosen type
C15_Witness ==
    /\ url.lang = Str(<<"fi">>)
    /\ panel.mounted /\ ~panel.dirty
    /\ panel.filters.type = Str(Minor) /\ url.type = Str(Minor)

\* C16: once the effect of a filter state change has run, onFiltersChange has
\* been called with the new FilterState, and the URL at the time of that
\* call was already rewritten to it.
C16_ObserverToldAfterURL ==
    \A island \in {panel, outline} :
        (island.mounted /\ ~island.dirty) =>
            /\ island.notified.called
            /\ island.notified.filters = island.filters
            /\ Carries(island.notified.url, island.filters)

\* the outline's observer was told of a changed FilterState
C16_Witness ==
    /\ outline.mounted /\ ~outline.dirty
    /\ outline.filters = [NoFilters EXCEPT !.version = Str(V_1_0)]
    /\ outline.notified.called
    /\ outline.notified.filters = outline.filters
    /\ outline.notified.url.version = Str(V_1_0)

-----------------------------------------------------------------------------
(* Properties of the outline's filter pass *)

Visible(i) == i \notin dom.hidden

\* C17: after a filter pass a card is visible if and only if filter() keeps
\* the release with the card's version, type and date.
C17_DomFilterAgreesWithFilter ==
    (dom.cards /\ dom.pass.fn = "checkAndApplyFilters") =>
        \A i \in 1..Len(DomCards) :
            Visible(i) <=> Keeps(DomCards[i], dom.pass.filters, dom.pass.clock)

\* a pass for "older": the card of two years ago is left, the others hidden
C17_Witness ==
    /\ dom.cards /\ dom.pass.fn = "checkAndApplyFilters"
    /\ dom.pass.filters = [NoFilters EXCEPT !.dateRange = Str(<<"older">>)]
    /\ dom.pass.clock.tz = "utc"
    /\ dom.hidden = {1, 2}

\* C18: a filter pass dispatches filtersChanged with the number of cards it
\* left visible as visibleCount, and hasResults true exactly when that
\* number is greater than 0; a callback dispatches one event per pass.
C18_FiltersChangedCountsVisible ==
    /\ \A n \in 1..Len(dispatched) :
          dispatched[n].hasResults <=> dispatched[n].visibleCount > 0
    /\ dispatched # <<>> =>
          /\ dom.cards /\ dom.pass.fn # "none"
          /\ dispatched[Len(dispatched)].visibleCount
                = Cardinality({i \in 1..Len(DomCards) : Visible(i)})
    /\ Len(dispatched) <= 2
    /\ Len(dispatched) = 2 => dom.pass.fn = "showAllCards"

\* a pass left one card visible and said so
C18_Witness ==
    /\ dom.pass.fn = "checkAndApplyFilters"
    /\ Cardinality(dom.hidden) = 2
    /\ dispatched = <<FiltersChanged(1)>>

\* C19: if no release card ever appears, the retries stop: from some time on
\* no retry is scheduled.
C19_Original ==
    (<>(dom.cards)) \/ (<>[](timers = <<>>))

-----------------------------------------------------------------------------
(* Properties of the scroll tracking *)

\* an animation frame callback runs and leaves the queue
FrameFires == Len(frame'.queue) < Len(frame.queue)

\* the frame's update keeps an active element it gives as null
KeepsActiveGivenNull ==
    FrameFires =>
        /\ Head(frame.queue).newState.activeRelease = Null =>
              scrollState'.activeRelease = scrollState.activeRelease
        /\ Head(frame.queue).newState.activeSection = Null =>
              scrollState'.activeSection = scrollState.activeSection


\* C20: a scroll-state update whose active release is null leaves a set
\* activeRelease as it was, and one whose active section is null leaves a
\* set activeSection as it was.
C20_Original ==
    [][KeepsActiveGivenNull]_vars

\* the same of the current copy of the hook alone
CurrentCopyKeepsActiveGivenNull ==
    [][scrollVariant = "current" => KeepsActiveGivenNull]_vars

-----------------------------------------------------------------------------
(* getUniqueVersions *)

UniqueCall == ret.op = "getUniqueVersions"
UniqueInput == heap[ret.in]

\* the place of the first release of the input that has version v
FirstOccurrence(v) ==
    CHOOSE i \in 1..Len(UniqueInput) :
        /\ UniqueInput[i].version = v
        /\ \A m \in 1..(i - 1) : UniqueInput[m].version # v

\* C23: getUniqueVersions returns each version of its input exactly once,
\* in the order in which the versions first occur in the input, and no
\* other string.
C23_UniqueVersionsFirstOccurrence ==
    UniqueCall =>
        /\ \A i \in 1..Len(UniqueInput) :
              Cardinality({j \in 1..Len(ret.out) :
                              ret.out[j] = UniqueInput[i].version}) = 1
        /\ \A j \in 1..Len(ret.out) :
              \E i \in 1..Len(UniqueInput) : UniqueInput[i].version = ret.out[j]
        /\ \A j \in 1..Len(ret.out), k \in 1..Len(ret.out) :
              j < k => FirstOccurrence(ret.out[j]) < FirstOccurrence(ret.out[k])

\* a version occurs twice in the input, with another version in between
C23_Witness ==
    /\ UniqueCall
    /\ Len(UniqueInput) = 3
    /\ UniqueInput[1].version = UniqueInput[3].version
    /\ UniqueInput[2].version # UniqueInput[1].version
    /\ ret.out = <<UniqueInput[1].version, UniqueInput[2].version>>

-----------------------------------------------------------------------------
(* loadReleases: records that carry a content field, arrays of both shapes *)

\* the direct validation failed and the legacy transform ran
LegacyPath ==
    ret.op = "load" /\ dataSource.k = "array" /\ ~ReleasesArraySchema(dataSource)

CarriesContent(item) == item.content.k # "undefined"

\* typeof content === 'object' && content !== null
ContentIsObject(item) == item.content.k \in {"object", "array"}

\* C29 as stated: on the legacy-recovery path every record that carries a
\* content field keeps exactly that content in the loaded list.
C29_Original ==
    (LegacyPath /\ ret.ok) =>
        \A i \in 1..Len(dataSource.items) :
            CarriesContent(dataSource.items[i]) =>
                /\ ContentSchema(dataSource.items[i].content)
                /\ \E j \in 1..Len(LoadedList) :
                      LoadedList[j] = ParsedRelease(dataSource.items[i])

\* C29: on the legacy-recovery path a record whose content field is an
\* object keeps exactly that content, nothing of its top-level string
\* arrays is used or merged into it, and the load fails when that content
\* is not a valid mapping; a content field that is null or not an object
\* is ignored and the record gets the content reconstructed from its
\* string-array fields.
C29_ObjectContentKept ==
    LegacyPath =>
        \A i \in 1..Len(dataSource.items) :
            /\ ContentIsObject(dataSource.items[i]) =>
                  /\ ~ContentSchema(dataSource.items[i].content) => ~ret.ok
                  /\ ret.ok =>
                        \E j \in 1..Len(LoadedList) :
                            LoadedList[j] = ParsedRelease(dataSource.items[i])
            /\ (/\ CarriesContent(dataSource.items[i])
                /\ ~ContentIsObject(dataSource.items[i])
                /\ ret.ok) =>
                  \E j \in 1..Len(LoadedList) :
                      NormalizedFrom(LoadedList[j], dataSource.items[i])

\* a record with a content mapping and top-level highlights stands beside a
\* legacy record: its content is kept, its highlights are not merged in
C29_Witness ==
    /\ LegacyPath /\ ret.ok
    /\ \E i \in 1..Len(dataSource.items) :
          /\ dataSource.items[i].content = FeaturesX
          /\ dataSource.items[i].highlights = Strings(<<"a">>)
          /\ \E j \in 1..Len(LoadedList) :
                /\ LoadedList[j].version = dataSource.items[i].version.v
                /\ Keys(LoadedList[j].content) = {"features"}

IsCurrentRecord(item) == ReleaseSchema(item)

\* C30: an array of records each valid in the current or in the legacy
\* shape loads, with one release per record; a current-shape record has
\* its own content, a legacy-shape record the content made of its
\* string-array fields.
C30_MixedShapesLoad ==
    (/\ ret.op = "load" /\ dataSource.k = "array"
     /\ \A i \in 1..Len(dataSource.items) :
           \/ IsCurrentRecord(dataSource.items[i])
           \/ IsLegacyRecord(dataSource.items[i])) =>
        /\ ret.ok
        /\ Len(LoadedList) = Len(dataSource.items)
        /\ \A i \in 1..Len(dataSource.items) :
              /\ IsCurrentRecord(dataSource.items[i]) =>
                    \E j \in 1..Len(LoadedList) :
                        LoadedList[j] = ParsedRelease(dataSource.items[i])
              /\ IsLegacyRecord(dataSource.items[i]) =>
                    \E j \in 1..Len(LoadedList) :
                        NormalizedFrom(LoadedList[j], dataSource.items[i])

\* a current-shape record and a legacy-shape record in one array
C30_Witness ==
    /\ Loaded /\ dataSource.k = "array" /\ Len(dataSource.items) = 2
    /\ \E i \in 1..2 :
          /\ IsCurrentRecord(dataSource.items[i])
          /\ IsLegacyRecord(dataSource.items[3 - i])
          /\ StringArrayFields(dataSource.items[3 - i]) # {}
          /\ LoadedList[1].content # LoadedList[2].content

-----------------------------------------------------------------------------
(* the two islands' copies of the filter selection *)

\* both islands are mounted and neither has an effect left to run
BothSettled ==
    /\ panel.mounted /\ outline.mounted
    /\ ~panel.dirty /\ ~outline.dirty

\* C22 as stated: whenever both islands are mounted and their effects have
\* settled, FilterPanel's filters and StickyOutline's filters are equal.
C22_Original == BothSettled => panel.filters = outline.filters

-----------------------------------------------------------------------------
(* useScrollTracking: the active elements of a batch, the animation frame *)

\* the entries of a batch that carry the attribute, are intersecting, and
\* have their top at or above the viewport centre and their bottom below
\* the viewport top
ActiveCandidates(entries, attr) ==
    {i \in 1..Len(entries) :
        /\ entries[i].target.attr = attr
        /\ entries[i].rect.isIntersecting
        /\ entries[i].rect.top <= CenterY
        /\ entries[i].rect.bottom > 0}

\* chosen is null when the batch has no candidate, else the identifier of a
\* candidate than which no candidate has a smaller top
SmallestTopChosen(entries, attr, chosen) ==
    IF ActiveCandidates(entries, attr) = {} THEN chosen = Null
    ELSE \E i \in ActiveCandidates(entries, attr) :
            /\ chosen = Str(entries[i].target.id)
            /\ \A j \in ActiveCandidates(entries, attr) :
                  entries[i].rect.top <= entries[j].rect.top

\* C25: the update computed from a batch names as active release the
\* release entry with the smallest top among those that are intersecting
\* with top at or above the centre and bottom below the viewport top, and
\* as active section the section entry chosen by the same rule among the
\* section entries alone.
C25_SmallestTopIsActive ==
    \A c \in 1..Len(frame.queue) :
        /\ SmallestTopChosen(frame.queue[c].entries, "data-release",
                             frame.queue[c].newState.activeRelease)
        /\ SmallestTopChosen(frame.queue[c].entries, "data-section",
                             frame.queue[c].newState.activeSection)

\* a batch lists two active releases, the lower one first, and the update
\* names the upper one
C25_Witness ==
    /\ Len(frame.queue) = 1
    /\ Len(frame.queue[1].entries) = 2
    /\ ActiveCandidates(frame.queue[1].entries, "data-release") = {1, 2}
    /\ frame.queue[1].entries[2].rect.top < frame.queue[1].entries[1].rect.top
    /\ frame.queue[1].newState.activeRelease = Str(frame.queue[1].entries[2].target.id)

\* the observer callback ran: a callback was scheduled
BatchDelivered ==
    /\ frame' # frame
    /\ Len(frame'.queue) >= Len(frame.queue)

\* the callback scheduled last
LatestCallback == frame.queue[Len(frame.queue)]

DebouncedStep ==
    /\ Len(frame.queue) <= 1 /\ Len(frame'.queue) <= 1
    /\ BatchDelivered =>
          /\ scrollState' = scrollState
          /\ Len(frame'.queue) = 1
    /\ FrameFires =>
          /\ frame'.queue = <<>>
          /\ LatestCallback.referenced
          /\ scrollState' = SetScrollState(scrollState, LatestCallback.newState)

\* C26: the observer callback never changes the scroll state, it leaves
\* exactly one animation frame callback pending, and when the frame fires
\* one update is applied, that of the batch delivered last, and no
\* callback of an earlier batch is left.
C26_OneFramePendingLatestWins == [][DebouncedStep]_vars

\* a batch replaced the pending callback of an earlier batch, and the frame
\* has fired since
C26_Witness ==
    /\ frame.ref /\ frame.cancelled
    /\ frame.queue = <<>>
    /\ scrollState # InitialScrollState

-----------------------------------------------------------------------------
(* layout modes, anchors, navigation sections, the active entry *)

\* the layout mode a width selects
ModeOf(width) ==
    IF width <= 768 THEN "mobile"
    ELSE IF width < 1024 THEN "tablet"
    ELSE "desktop"

\* StickyOutline has rendered and shows its release entries
EntriesShown == layout.outlineMounted /\ ~(view.mode = "mobile" /\ layout.isCollapsed)

\* StickyOutline alone: its one layout mode is the one the width selects
OutlineModeMatchesWidth ==
    layout.outlineMounted =>
        /\ view.mode = ModeOf(layout.width)
        /\ ~(layout.isMobile /\ layout.isTablet)

\* C21 as stated: once an island has mounted, and after every resize, its
\* layout is the one the current width selects: mobile when width <= 768,
\* tablet when 768 < width < 1024, desktop when width >= 1024.
C21_Original ==
    /\ OutlineModeMatchesWidth
    /\ layout.panelMounted =>
          (layout.panelIsMobile <=> ModeOf(layout.width) = "mobile")

\* C24: the anchor of a navigation entry is "release-" followed by the
\* version with every '.' replaced by '-', the anchor of a section is that
\* anchor followed by '-' and the section key, and both are what
\* generateReleaseId and generateSectionId return.
C24_AnchorsFromVersion ==
    EntriesShown =>
        \A i \in 1..Len(view.items) :
            /\ Len(view.items[i].anchor) = Len(view.items[i].version) + 1
            /\ view.items[i].anchor[1] = "release-"
            /\ \A k \in 1..Len(view.items[i].version) :
                  view.items[i].anchor[k + 1] =
                      IF view.items[i].version[k] = "." THEN "-"
                      ELSE view.items[i].version[k]
            /\ view.items[i].anchor = GenerateReleaseId(view.items[i].version)
            /\ \A j \in 1..Len(view.items[i].sections) :
                  /\ view.items[i].sections[j].anchor =
                        view.items[i].anchor \o <<"-", view.items[i].sections[j].id>>
                  /\ view.items[i].sections[j].anchor =
                        GenerateSectionId(view.items[i].version,
                                          view.items[i].sections[j].id)

\* the entry of version 1.9.0 with its section bugfixes
C24_Witness ==
    /\ EntriesShown
    /\ \E i \in 1..Len(view.items) :
          /\ view.items[i].version = V_1_9_0
          /\ view.items[i].anchor = <<"release-", "1", "-", "9", "-", "0">>
          /\ Len(view.items[i].sections) > 0
          /\ view.items[i].sections[1].anchor =
                <<"release-", "1", "-", "9", "-", "0", "-", "bugfixes">>

SectionsShown == layout.outlineMounted /\ view.mode \in {"tablet", "desktop"}

\* the place of a key in the content of the i-th release
KeyPlace(i, key) ==
    CHOOSE k \in 1..Len(ReleasesProp[i].content) : ReleasesProp[i].content[k].key = key

\* C28: the entry of a release has one section for each content key whose
\* array is non-empty and none for a key whose array is empty, in the order
\* of the keys; a release whose content is empty or has only empty arrays
\* is loaded as valid and its entry has no section.
C28_SectionsOfNonEmptyKeys ==
    SectionsShown =>
        /\ Loaded
        /\ Len(view.items) = Len(ReleasesProp)
        /\ \A i \in 1..Len(view.items) :
              /\ \A k \in 1..Len(ReleasesProp[i].content) :
                    Cardinality({j \in 1..Len(view.items[i].sections) :
                                    view.items[i].sections[j].id =
                                        ReleasesProp[i].content[k].key})
                        = IF ReleasesProp[i].content[k].val # <<>> THEN 1 ELSE 0
              /\ \A j \in 1..Len(view.items[i].sections) :
                    view.items[i].sections[j].id \in Keys(ReleasesProp[i].content)
              /\ \A j, m \in 1..Len(view.items[i].sections) :
                    j < m => KeyPlace(i, view.items[i].sections[j].id)
                                < KeyPlace(i, view.items[i].sections[m].id)
              /\ (\A k \in 1..Len(ReleasesProp[i].content) :
                     ReleasesProp[i].content[k].val = <<>>)
                    => view.items[i].sections = <<>>

\* a release with a filled, an empty and another filled section beside a
\* release whose only section is empty
C28_Witness ==
    /\ SectionsShown /\ Len(view.items) = 2
    /\ Len(ReleasesProp[1].content) = 3
    /\ ReleasesProp[1].content[2].val = <<>>
    /\ Len(view.items[1].sections) = 2
    /\ view.items[1].sections[1].id = "bugfixes"
    /\ view.items[1].sections[2].id = "notes"
    /\ Len(ReleasesProp[2].content) = 1
    /\ view.items[2].sections = <<>>

-----------------------------------------------------------------------------
(* Properties of the retry timers of the outline's filter pass *)

\* no retry is pending, the cards are rendered and the last render's effect ran
RetriesSettled ==
    /\ outline.mounted /\ ~outline.dirty
    /\ dom.cards
    /\ timers = <<>>

\* the cards shown and the last filtersChanged event are those of a filter
\* pass with the given filters
PassCorrespondsTo(filters) ==
    \E clock \in UIClocks :
        LET shown == {i \in 1..Len(DomCards) : ShouldShow(DomCards[i], filters, clock)}
        IN  /\ \A i \in 1..Len(DomCards) : Visible(i) <=> i \in shown
            /\ dispatched # <<>>
            /\ dispatched[Len(dispatched)] = FiltersChanged(Cardinality(shown))

\* C31: once every pending retry timer has run and the release cards are
\* present, the visibility of every card and the payload of the last
\* filtersChanged event correspond to the outline's current filters,
\* whatever the interleaving of filter changes, showAllCards polling and
\* retry timers scheduled while the cards were absent.
C31_Original ==
    RetriesSettled => PassCorrespondsTo(outline.filters)

-----------------------------------------------------------------------------
(* Properties of several batches before one animation frame *)

\* the most recent non-null value of a field among the batches delivered
\* since the last frame, given that value for the batches before the last
\* one (carried by the callback pending before) and the last batch
MostRecentNonNull(pendingBefore, entries, field) ==
    Coalesce(HandleIntersection("current", entries, 0)[field],
             pendingBefore.newState[field])

\* a batch arrives while the callback of an earlier batch is pending: the
\* update the frame will apply names the most recent non-null active
\* release and section of the batches so far; and the frame applies it
NoActiveLost ==
    /\ (BatchDelivered /\ frame.queue # <<>>) =>
          LET pendingAfter == frame'.queue[Len(frame'.queue)]
          IN  \A field \in {"activeRelease", "activeSection"} :
                  pendingAfter.newState[field]
                      = MostRecentNonNull(LatestCallback, pendingAfter.entries, field)
    /\ FrameFires =>
          \A field \in {"activeRelease", "activeSection"} :
              scrollState'[field]
                  = Coalesce(LatestCallback.newState[field], scrollState[field])

\* C32: when several intersection batches arrive before the animation frame
\* fires, no active release is lost: after the frame, activeRelease is the
\* most recent non-null active release computed by any of those batches,
\* and likewise activeSection.
C32_Original == [][NoActiveLost]_vars

-----------------------------------------------------------------------------
(* The active section and the active release *)

\* the release container a section block lies in: the section blocks of a
\* release are rendered inside the release's container
ContainerOf(sectionId) ==
    IF sectionId = <<"release-2-features">> THEN <<"release-2">> ELSE <<>>

\* C33: in every reachable scroll state in which both are set, the active
\* section is a section of the active release.
C33_Original ==
    (scrollState.activeRelease # Null /\ scrollState.activeSection # Null) =>
        ContainerOf(scrollState.activeSection.v) = scrollState.activeRelease.v

-----------------------------------------------------------------------------
(* The passed sets across batches *)

\* the identifiers of the elements a batch has entries of
Mentioned(entries, attr) ==
    {entries[i].target.id : i \in {j \in 1..Len(entries) : entries[j].target.attr = attr}}

\* the frame applies a batch: what an earlier batch put into a passed set
\* and this batch does not mention stays in the set
KeepsPassedNotMentioned ==
    FrameFires =>
        /\ \A id \in scrollState.passedReleases :
              id \notin Mentioned(LatestCallback.entries, "data-release")
                  => id \in scrollState'.passedReleases
        /\ \A id \in scrollState.passedSections :
              id \notin Mentioned(LatestCallback.entries, "data-section")
                  => id \in scrollState'.passedSections

\* C34: a release or section that an earlier intersection batch classified
\* as passed, and that a later batch does not mention, is still in
\* passedReleases / passedSections after the later batch has been applied.
C34_Original == [][KeepsPassedNotMentioned]_vars

-----------------------------------------------------------------------------
(* Properties of the observer's registration and of the unmount *)

\* every element is observed and no registration is pending
Registered == hook.observed = Elements /\ ~hook.setupTimeout

\* C35: while the release list does not change, the set of observed
\* elements reaches a steady state: a scroll-state update causes no
\* unobserve and re-observe, so scroll-state updates cannot keep triggering
\* re-registration indefinitely: from some time on every element stays
\* observed.
C35_Original == <>[]Registered

\* a retry timer fired and ran its filter pass instead of scheduling itself
\* again: the pass shows or hides every card and dispatches filtersChanged
PassRuns == Len(timers') < Len(timers)

\* no callback of the unmounted outline takes effect
QuietAfterUnmount ==
    hook.unmounted =>
        /\ scrollState' = scrollState
        /\ hook'.observed = hook.observed
        /\ ~PassRuns
        /\ dom'.hidden = dom.hidden

\* C36: after the outline has unmounted none of its pending callbacks takes
\* effect: no animation frame updates the scroll state, no delayed
\* setupObservers registers an element, and no retry runs the filter pass,
\* so no card visibility changes and no filtersChanged event is dispatched.
C36_Original == [][QuietAfterUnmount]_vars

-----------------------------------------------------------------------------
(* The values of the two islands' filters *)

\* C37: in every reachable state of FilterPanel and of StickyOutline each
\* FilterState field is absent or a valid value: type a ReleaseType,
\* dateRange a DateRange, version a member of availableVersions.
C37_Original ==
    /\ panel.mounted => ValidFilterState(panel.filters)
    /\ outline.mounted => ValidFilterState(outline.filters)

-----------------------------------------------------------------------------
(* The URL's fragment *)

\* C38: a filter change leaves the URL's fragment, the #anchor used for
\* in-page deep-linking, unchanged: the effect of the change rewrites the
\* query and keeps the fragment.
C38_Original ==
    [][(EffectRuns(panel, panel') \/ EffectRuns(outline, outline'))
          => url'.hash = url.hash]_vars

-----------------------------------------------------------------------------
(* The anchors of one release list *)

\* the navigation structure of the loaded list
LoadedNavigation == NavigationReleases(ReleasesProp)

\* the version strings of the list are pairwise distinct
DistinctVersions(nav) ==
    \A i, j \in 1..Len(nav) : i # j => nav[i].version # nav[j].version

\* the anchors of release i: its own and those of its sections
AnchorsOf(nav, i) ==
    {nav[i].anchor} \cup {nav[i].sections[k].anchor : k \in 1..Len(nav[i].sections)}

\* C39: within one validated release list whose version strings are
\* pairwise distinct, all release anchors and section anchors are pairwise
\* distinct: no two different releases, and no release and section of
\* another release, share an anchor.
C39_Original ==
    (ret.op = "load" /\ ret.ok /\ DistinctVersions(LoadedNavigation)) =>
        \A i, j \in 1..Len(LoadedNavigation) :
            i # j => AnchorsOf(LoadedNavigation, i) \cap AnchorsOf(LoadedNavigation, j) = {}

-----------------------------------------------------------------------------
(* The loaded order and the order of the input file *)

\* the permutations of 1..n
IndexPermutations(n) ==
    {p \in [1..n -> 1..n] : \A i, j \in 1..n : i # j => p[i] # p[j]}

\* the data file with its records in another order
PermutedSource(p) ==
    JsonArray([i \in 1..Len(dataSource.items) |-> dataSource.items[p[i]]])

\* what loadReleases() resolves with for a data file
LoadedOf(src) == LoadReleases(src).heap[LoadReleases(src).ref]

\* the validated records of a data file in the order of the file
ValidatedOf(src) ==
    IF ReleasesArraySchema(src) THEN ParsedArray(src) ELSE ParsedArray(Transformed(src))

\* two releases the ordering does not tell apart: the same instant as date,
\* and versions that compare equal
Tie(a, b) ==
    GetTime(a.date) = GetTime(b.date) /\ CompareVersions(a.version, b.version) = 0

\* two different releases of the list tie
HasTie(list) ==
    \E i, j \in 1..Len(list) : list[i] # list[j] /\ Tie(list[i], list[j])

\* release a stands before release b in the list
Before(list, a, b) ==
    \E i, j \in 1..Len(list) : i < j /\ list[i] = a /\ list[j] = b

\* C40 as stated: two input arrays that are permutations of each other load
\* to the same sequence.
C40_Original ==
    Loaded =>
        \A p \in IndexPermutations(Len(dataSource.items)) :
            LoadedOf(PermutedSource(p)) = LoadedList

\* C40: a permutation of the input file loads as well, to a sequence that
\* differs from the loaded one only in the order of releases that tie in
\* date and version; so without a tie the two sequences are the same; and
\* releases that tie stand in the order they have in their input file.
C40_SameUpToTies ==
    Loaded =>
        \A p \in IndexPermutations(Len(dataSource.items)) :
            LET other == LoadedOf(PermutedSource(p))
            IN  /\ LoadReleases(PermutedSource(p)).ok
                /\ Len(other) = Len(LoadedList)
                /\ \A i \in 1..Len(other) :
                      other[i] = LoadedList[i] \/ Tie(other[i], LoadedList[i])
                /\ ~HasTie(LoadedList) => other = LoadedList
                /\ \A i, j \in 1..Len(other) :
                      (i < j /\ Tie(other[i], other[j]))
                          => Before(ValidatedOf(PermutedSource(p)), other[i], other[j])

\* the file lists 1.0.0 and 1.0 of one date, which tie, and load() returns
\* them in the order of the file
C40_Witness ==
    /\ Loaded
    /\ Len(LoadedList) = 2
    /\ LoadedList[1].version = V_1_0_0 /\ LoadedList[2].version = V_1_0
    /\ LoadedList[1].date = LoadedList[2].date
    /\ LoadedList = ValidatedOf(dataSource)

=============================================================================
